---- MODULE Spec2Model ----
(***************************************************************************)
(* Model of the CRM backend (leads, agents, auth, admin gate).             *)
(*                                                                         *)
(* Text values.  A JavaScript string is modelled as a sequence of chunks,  *)
(* each chunk a TLA+ string that stands for one or more characters of the  *)
(* text (<<"@", "x">> is "@x", <<>> is "").  The JavaScript values         *)
(* undefined and null are the two reserved one-chunk sequences Undefined   *)
(* and Null, so that every value of a field can be compared with every     *)
(* other.                                                                  *)
(***************************************************************************)
EXTENDS Naturals, Sequences, FiniteSets, TLC

Undefined == <<"<undefined>">>
Null == <<"<null>">>

\* JavaScript truthiness of a string-or-absent value: undefined, null and ""
\* are falsy, every other string is truthy.
Truthy(v) == v # Undefined /\ v # Null /\ v # <<>>

\* x || y on string-or-absent values.
OrElse(x, y) == IF Truthy(x) THEN x ELSE y

\* The characters JavaScript's trim() and the regular expression class \s
\* remove.
IsSpace(c) == c \in {" ", "\t", "\n"}

RECURSIVE TrimStart(_)
TrimStart(s) ==
    IF s = <<>> THEN <<>>
    ELSE IF IsSpace(Head(s)) THEN TrimStart(Tail(s)) ELSE s

RECURSIVE TrimEnd(_)
TrimEnd(s) ==
    IF s = <<>> THEN <<>>
    ELSE IF IsSpace(s[Len(s)]) THEN TrimEnd(SubSeq(s, 1, Len(s) - 1)) ELSE s

\* String.prototype.trim
Trim(s) == TrimEnd(TrimStart(s))

\* v?.trim() || null
TrimOrNull(v) == IF Truthy(v) /\ Trim(v) # <<>> THEN Trim(v) ELSE Null

\* String.prototype.startsWith
StartsWith(s, p) == Len(s) >= Len(p) /\ SubSeq(s, 1, Len(p)) = p

\* The positions at which pat occurs in s.
Occurrences(s, pat) ==
    {i \in 1..(Len(s) + 1) :
        i + Len(pat) - 1 <= Len(s) /\ SubSeq(s, i, i + Len(pat) - 1) = pat}

\* String.prototype.includes
Includes(s, pat) == Occurrences(s, pat) # {}

Min(S) == CHOOSE x \in S : \A y \in S : x <= y

\* String.prototype.replace with a string pattern: the first occurrence only.
ReplaceFirst(s, pat, rep) ==
    IF Occurrences(s, pat) = {} THEN s
    ELSE LET i == Min(Occurrences(s, pat))
         IN  SubSeq(s, 1, i - 1) \o rep \o SubSeq(s, i + Len(pat), Len(s))

Bearer == <<"B", "e", "a", "r", "e", "r", " ">>

(***************************************************************************)
(* State.                                                                  *)
(***************************************************************************)
VARIABLES
    adminToken,   \* process.env.ADMIN_TOKEN (Undefined when not set)
    gate,         \* the last request given to requireAdminToken and its outcome
    now,          \* the clock, in token expiry windows
    agents,       \* the rows of table agents
    seed,         \* position of initDatabase's createDefaultAgent
    call,         \* per request slot: the handler in progress and its locals
    resp,         \* the last response sent, with the request it answers
    nops,         \* number of requests accepted so far
    leadsTable,   \* which table leads the database holds (see dbInsertLead)
    leads,        \* the rows of table leads
    sessions      \* the rows of table sessions

vars == <<adminToken, gate, now, agents, seed, call, resp, nops, leadsTable, leads,
          sessions>>

(***************************************************************************)
(* The admin gate.                                                         *)
(***************************************************************************)

\* req.headers['authorization']?.replace('Bearer ', '')
StripBearer(authorization) ==
    IF authorization = Undefined THEN Undefined
    ELSE ReplaceFirst(authorization, Bearer, <<>>)

\* A gate that accepts when either header carries the secret.
requireAdminTokenEitherHeader(secret, xAdminToken, authorization) ==
    IF ~Truthy(secret) THEN [passed |-> TRUE, status |-> 0]
    ELSE IF xAdminToken = secret \/ StripBearer(authorization) = secret
         THEN [passed |-> TRUE, status |-> 0]
         ELSE [passed |-> FALSE, status |-> 401]

\* requireAdminToken: passed = next() was called; otherwise the status sent.
requireAdminToken(secret, xAdminToken, authorization) ==
    IF ~Truthy(secret) THEN [passed |-> TRUE, status |-> 0]
    ELSE LET token == OrElse(xAdminToken, StripBearer(authorization))
         IN  IF ~Truthy(token) \/ token # secret
             THEN [passed |-> FALSE, status |-> 401]
             ELSE [passed |-> TRUE, status |-> 0]

\* Values of ADMIN_TOKEN: not set, set to the empty string, two secrets (the
\* second one contains the text "Bearer ").
Secret == <<"s", "3", "c">>
SecretWithScheme == Bearer \o <<"k">>
AdminTokens == {Undefined, <<>>, Secret, SecretWithScheme}
Wrong == <<"w", "r", "o">>

\* Values of the X-Admin-Token header.
XAdminTokens == {Undefined, <<>>, Wrong, Secret, SecretWithScheme}

\* Values of the Authorization header: absent, empty, a bearer credential,
\* a bare credential without scheme, another scheme.
Authorizations ==
    {Undefined, <<>>, Bearer}
    \cup {Bearer \o t : t \in {Wrong, Secret, SecretWithScheme}}
    \cup {Wrong, Secret, SecretWithScheme}
    \cup {<<"B", "a", "s", "i", "c", " ">> \o Secret}


(***************************************************************************)
(* Validators (agents router).                                             *)
(***************************************************************************)
IsDigit(c) == c \in {"0", "1", "2", "3", "4", "5", "6", "7", "8", "9"}

\* The characters of the class [\s\-\(\)\+].
IsPhonePunct(c) == IsSpace(c) \/ c \in {"-", "(", ")", "+"}

NotPhonePunct(c) == ~IsPhonePunct(c)

\* validatePhone
validatePhone(phone) ==
    /\ Truthy(phone)
    /\ LET cleaned == SelectSeq(phone, NotPhonePunct)
       IN  /\ Len(cleaned) >= 10
           /\ \A i \in 1..Len(cleaned) : IsDigit(cleaned[i])

\* validateEmail: /^[^\s@]+@[^\s@]+\.[^\s@]+$/, an absent or empty email passes.
validateEmail(email) ==
    \/ ~Truthy(email)
    \/ /\ \A i \in 1..Len(email) : ~IsSpace(email[i])
       /\ Cardinality({i \in 1..Len(email) : email[i] = "@"}) = 1
       /\ \E i \in 2..Len(email) :
            /\ email[i] = "@"
            /\ \E j \in (i + 2)..(Len(email) - 1) : email[j] = "."

(***************************************************************************)
(* Collaborators: bcrypt and jsonwebtoken.                                 *)
(***************************************************************************)

\* bcrypt.hash(plain, 10): a digest that is not the plain text.
bcryptHash(plain) == <<"$2b$10$">> \o plain

\* bcrypt.compare(plain, digest)
bcryptCompare(plain, digest) == digest = bcryptHash(plain)

\* The clock runs from 0 to MaxTime.
MaxTime == 1

JWT_SECRET == <<"jwt-key">>
ForgedKey == <<"other-key">>

\* JWT_EXPIRES_IN ('7d'): one expiry window of the clock.
JWT_EXPIRES_IN == 1

\* jwt.sign({id, ...}, key, {expiresIn}): the token text, made of the marker,
\* the agent identifier, the expiry time and the signing key.  The claims
\* login, firstName and lastName of the payload are read nowhere and left out.
jwtSign(id, key, issuedAt) == <<"jwt">> \o id \o <<ToString(issuedAt + JWT_EXPIRES_IN)>> \o key

IsJwt(token) == Len(token) = 4 /\ token[1] = "jwt"

\* jwt.verify(token, key): TRUE when the call returns the claims, FALSE when
\* it throws (malformed text, wrong signature, or the clock has reached the
\* expiry time).
jwtVerify(token, key, time) ==
    /\ IsJwt(token)
    /\ <<token[4]>> = key
    /\ \E e \in 0..(MaxTime + JWT_EXPIRES_IN) : ToString(e) = token[3] /\ time < e

\* decoded.id
jwtId(token) == <<token[2]>>

\* requireAuth: passed = next() was called with req.agentId set.
requireAuth(authorization, time) ==
    IF authorization = Undefined \/ ~StartsWith(authorization, Bearer)
    THEN [passed |-> FALSE, status |-> 401, agentId |-> Undefined]
    ELSE LET token == ReplaceFirst(authorization, Bearer, <<>>)
         IN  IF jwtVerify(token, JWT_SECRET, time)
             THEN [passed |-> TRUE, status |-> 0, agentId |-> jwtId(token)]
             ELSE [passed |-> FALSE, status |-> 401, agentId |-> Undefined]

(***************************************************************************)
(* Table agents.  A row keeps the columns the handlers below read or       *)
(* write: id, first_name, last_name, phone, email, login, password_hash.   *)
(***************************************************************************)

\* Concurrent request slots, and requests accepted in one run.
NumProcs == 2
MaxOps == 3

Procs == 1..NumProcs

\* uuidv4() for the n-th request: an identifier no other request gets.
Uuid(n) == <<"uuid-" \o ToString(n)>>

\* An INSERT that checks the primary key only.
dbInsertAgentNoUnique(table, row) ==
    IF \E a \in table : a.id = row.id
    THEN [ok |-> FALSE, table |-> table]
    ELSE [ok |-> TRUE, table |-> table \cup {row}]

\* INSERT INTO agents: id is the PRIMARY KEY and login is UNIQUE (NULL logins
\* do not collide); a violated constraint makes the statement throw.
dbInsertAgent(table, row) ==
    IF \/ \E a \in table : a.id = row.id
       \/ row.login # Null /\ \E a \in table : a.login = row.login
    THEN [ok |-> FALSE, table |-> table]
    ELSE [ok |-> TRUE, table |-> table \cup {row}]

\* SELECT ... FROM agents WHERE id = ?
AgentsById(table, id) == {a \in table : a.id = id}

\* SELECT id FROM agents WHERE login = ?
AgentsByLogin(table, login) == {a \in table : a.login = login}

\* SELECT ... FROM agents WHERE login = ? OR email = ? OR phone = ?
AgentsByCredential(table, v) ==
    {a \in table : a.login = v \/ a.email = v \/ a.phone = v}

\* v || undefined
OrUndefined(v) == IF Truthy(v) THEN v ELSE Undefined

\* toCamelCase (agents): the projection sent to the caller.
agentToCamelCase(row) ==
    [id |-> row.id, firstName |-> row.first_name, lastName |-> row.last_name,
     phone |-> row.phone, email |-> OrUndefined(row.email),
     login |-> OrUndefined(row.login)]

Idle == [op |-> "none", pc |-> "idle"]
NoResp == [op |-> "none", status |-> 0]

\* The handler in slot p sends r.
Respond(p, r) == resp' = r

\* Slot p accepts a new request.
CanBegin(p) == call[p].pc = "idle" /\ seed = "done" /\ nops < MaxOps

(***************************************************************************)
(* initDatabase: createDefaultAgent.                                       *)
(***************************************************************************)
PhoneDefault == <<"+", "7", "9", "7", "7", "3", "5", "7", "5", "3", "0", "1">>
EmailDefault == <<"v", "@", "bank", ".", "com">>
LoginDefault == <<"admin">>
PasswordDefault == <<"admin123">>
DefaultAgentId == <<"00000000-0000-0000-0000-000000000001">>

DefaultAgent ==
    [id |-> DefaultAgentId, first_name |-> <<"Alexander">>,
     last_name |-> <<"Vissarov">>, phone |-> PhoneDefault,
     email |-> EmailDefault, login |-> LoginDefault,
     password_hash |-> bcryptHash(PasswordDefault)]

\* A server process starts (the first one, a restart or a further instance
\* on the same database) and reaches createDefaultAgent.
SeedStart ==
    /\ seed = "done"
    /\ nops < MaxOps
    /\ seed' = "check"
    /\ nops' = nops + 1
    /\ UNCHANGED <<sessions, leadsTable, leads, adminToken, gate, now, agents, call, resp>>

\* SELECT id FROM agents LIMIT 1
SeedCheck ==
    /\ seed = "check"
    /\ seed' = IF agents = {} THEN "insert" ELSE "done"
    /\ UNCHANGED <<sessions, leadsTable, leads, adminToken, gate, now, agents, call, resp, nops>>

\* The INSERT of the default agent; a failure is logged and swallowed.
SeedInsert ==
    /\ seed = "insert"
    /\ agents' = dbInsertAgent(agents, DefaultAgent).table
    /\ seed' = "done"
    /\ UNCHANGED <<sessions, leadsTable, leads, adminToken, gate, now, call, resp, nops>>

(***************************************************************************)
(* POST /api/agents                                                        *)
(***************************************************************************)
PhoneOk == <<"8", "9", "0", "0", "1", "2", "3", "4", "5", "6", "7">>
PhoneShort == <<"1", "2", "3">>

\* The header pairs (X-Admin-Token, Authorization) requests arrive with.
AdminHeaders == {<<Undefined, Undefined>>, <<Secret, Undefined>>}

AgentInput(firstName, phone, login, password) ==
    [firstName |-> firstName, lastName |-> <<"Lee">>, phone |-> phone,
     email |-> Undefined, login |-> login, password |-> password]

AgentInputs ==
    {AgentInput(<<"Ann">>, PhoneOk, Undefined, Undefined),
     AgentInput(<<"Ann">>, PhoneOk, <<"bob">>, <<"pw">>),
     AgentInput(<<"Ann">>, PhoneOk, <<" ", "bob">>, Undefined),
     AgentInput(Undefined, PhoneShort, <<"bob">>, <<"pw">>)}

Required(v) == ~Truthy(v) \/ Trim(v) = <<>>

\* The errors mapping of agent creation, as a set of <<field, message>>.
\* loginExists is the result of the SELECT on login.
AgentCreateErrors(b, loginExists) ==
    (IF Required(b.firstName) THEN {<<"firstName", "First name is required">>} ELSE {})
    \cup (IF Required(b.lastName) THEN {<<"lastName", "Last name is required">>} ELSE {})
    \cup (IF Required(b.phone) THEN {<<"phone", "Phone is required">>}
          ELSE IF ~validatePhone(b.phone) THEN {<<"phone", "Invalid phone format">>}
          ELSE {})
    \cup (IF Truthy(b.email) /\ ~validateEmail(b.email)
          THEN {<<"email", "Invalid email format">>} ELSE {})
    \cup (IF loginExists THEN {<<"login", "Login already exists">>} ELSE {})

\* The request enters the handler: validation, the SELECT on login when a
\* login is given, and the 400 answer when there are errors.  No middleware
\* stands before the handler: the headers are not read.
AgentCreateBegin(p) ==
    /\ CanBegin(p)
    /\ \E h \in AdminHeaders, b \in AgentInputs :
         LET req == [xAdminToken |-> h[1], authorization |-> h[2], body |-> b]
             loginExists == Truthy(b.login) /\ AgentsByLogin(agents, Trim(b.login)) # {}
             errors == AgentCreateErrors(b, loginExists)
         IN  IF errors # {}
             THEN /\ Respond(p, [op |-> "createAgent", req |-> req, status |-> 400,
                                 errors |-> errors])
                  /\ UNCHANGED call
             ELSE /\ call' = [call EXCEPT ![p] =
                                [op |-> "createAgent", pc |-> "insert", req |-> req,
                                 id |-> Uuid(nops + 1)]]
                  /\ UNCHANGED resp
    /\ nops' = nops + 1
    /\ UNCHANGED <<sessions, leadsTable, leads, adminToken, gate, now, agents, seed>>

\* The row the handler inserts.
AgentCreateRow(id, b) ==
    [id |-> id, first_name |-> Trim(b.firstName), last_name |-> Trim(b.lastName),
     phone |-> Trim(b.phone), email |-> TrimOrNull(b.email),
     login |-> TrimOrNull(b.login),
     password_hash |-> IF Truthy(b.password) THEN bcryptHash(b.password) ELSE Null]

\* bcrypt.hash and the INSERT.  A statement that throws is caught at
\* the handler's boundary and answered 500.
AgentCreateInsert(p) ==
    /\ call[p].pc = "insert" /\ call[p].op = "createAgent"
    /\ LET r == dbInsertAgent(agents, AgentCreateRow(call[p].id, call[p].req.body))
       IN  /\ agents' = r.table
           /\ IF r.ok
              THEN /\ call' = [call EXCEPT ![p].pc = "fetch"]
                   /\ UNCHANGED resp
              ELSE /\ call' = [call EXCEPT ![p] = Idle]
                   /\ Respond(p, [op |-> "createAgent", req |-> call[p].req,
                                  status |-> 500, error |-> "Internal server error"])
    /\ UNCHANGED <<sessions, leadsTable, leads, adminToken, gate, now, seed, nops>>

\* SELECT * FROM agents WHERE id = ? and the 201 answer; toCamelCase of a
\* missing row throws.
AgentCreateFetch(p) ==
    /\ call[p].pc = "fetch" /\ call[p].op = "createAgent"
    /\ LET rows == AgentsById(agents, call[p].id)
       IN  IF rows = {}
           THEN Respond(p, [op |-> "createAgent", req |-> call[p].req,
                            status |-> 500, error |-> "Internal server error"])
           ELSE \E row \in rows :
                  Respond(p, [op |-> "createAgent", req |-> call[p].req,
                              status |-> 201, body |-> agentToCamelCase(row)])
    /\ call' = [call EXCEPT ![p] = Idle]
    /\ UNCHANGED <<sessions, leadsTable, leads, adminToken, gate, now, agents, seed, nops>>

(***************************************************************************)
(* PATCH /api/agents/:id                                                   *)
(***************************************************************************)

\* Identifiers a request can name: those of the rows, and one that names
\* no row.
KnownIds == {a.id : a \in agents} \cup {<<"no-such-id">>}

AgentPatchInput(firstName, phone, login, password) ==
    [firstName |-> firstName, phone |-> phone, email |-> Undefined,
     login |-> login, password |-> password]

\* The body may carry login and password: the handler does not read them.
AgentPatchInputs ==
    {AgentPatchInput(<<"Zoe">>, Undefined, Undefined, Undefined),
     AgentPatchInput(<<"Zoe">>, PhoneShort, Undefined, Undefined),
     AgentPatchInput(Undefined, Undefined, <<"bob">>, <<"pw2">>),
     AgentPatchInput(<<"Zoe">>, Undefined, <<"eve">>, <<"pw2">>),
     AgentPatchInput(<<" ", " ">>, Undefined, Undefined, Undefined)}

AgentPatchErrors(b) ==
    (IF b.phone # Undefined /\ Required(b.phone) THEN {<<"phone", "Phone is required">>}
     ELSE IF Truthy(b.phone) /\ ~validatePhone(b.phone)
          THEN {<<"phone", "Invalid phone format">>}
          ELSE {})
    \cup (IF b.email # Undefined /\ Truthy(b.email) /\ ~validateEmail(b.email)
          THEN {<<"email", "Invalid email format">>} ELSE {})

\* A SET list that also takes login and password from the body.
AgentPatchUpdatesWithLogin(b) ==
    (IF b.firstName # Undefined THEN {<<"first_name", Trim(b.firstName)>>} ELSE {})
    \cup (IF b.phone # Undefined THEN {<<"phone", Trim(b.phone)>>} ELSE {})
    \cup (IF b.email # Undefined THEN {<<"email", TrimOrNull(b.email)>>} ELSE {})
    \cup (IF b.login # Undefined THEN {<<"login", TrimOrNull(b.login)>>} ELSE {})
    \cup (IF Truthy(b.password)
          THEN {<<"password_hash", bcryptHash(b.password)>>} ELSE {})

\* The SET list of the UPDATE: the supplied columns with their new values.
AgentPatchUpdates(b) ==
    (IF b.firstName # Undefined THEN {<<"first_name", Trim(b.firstName)>>} ELSE {})
    \cup (IF b.phone # Undefined THEN {<<"phone", Trim(b.phone)>>} ELSE {})
    \cup (IF b.email # Undefined THEN {<<"email", TrimOrNull(b.email)>>} ELSE {})

\* The existence check, validation and the answers sent before the UPDATE.
AgentPatchBegin(p) ==
    /\ CanBegin(p)
    /\ \E id \in KnownIds, b \in AgentPatchInputs :
         LET req == [id |-> id, body |-> b]
         IN  IF AgentsById(agents, id) = {}
             THEN /\ Respond(p, [op |-> "patchAgent", req |-> req, status |-> 404,
                                 error |-> "Agent not found"])
                  /\ UNCHANGED call
             ELSE IF AgentPatchErrors(b) # {}
             THEN /\ Respond(p, [op |-> "patchAgent", req |-> req, status |-> 400,
                                 errors |-> AgentPatchErrors(b)])
                  /\ UNCHANGED call
             ELSE IF AgentPatchUpdates(b) = {}
             THEN /\ Respond(p, [op |-> "patchAgent", req |-> req, status |-> 400,
                                 error |-> "No fields to update"])
                  /\ UNCHANGED call
             ELSE /\ call' = [call EXCEPT ![p] =
                                [op |-> "patchAgent", pc |-> "update", req |-> req,
                                 id |-> id]]
                  /\ UNCHANGED resp
    /\ nops' = nops + 1
    /\ UNCHANGED <<sessions, leadsTable, leads, adminToken, gate, now, agents, seed>>

\* The row after the SET list is applied.
ApplyUpdates(row, updates) ==
    [c \in DOMAIN row |->
        IF \E u \in updates : u[1] = c
        THEN (CHOOSE u \in updates : u[1] = c)[2]
        ELSE row[c]]

\* UPDATE agents SET ... WHERE id = ?
AgentPatchUpdate(p) ==
    /\ call[p].pc = "update" /\ call[p].op = "patchAgent"
    /\ agents' = {IF a.id = call[p].id
                  THEN ApplyUpdates(a, AgentPatchUpdates(call[p].req.body))
                  ELSE a : a \in agents}
    /\ call' = [call EXCEPT ![p].pc = "fetch"]
    /\ UNCHANGED <<sessions, leadsTable, leads, adminToken, gate, now, seed, resp, nops>>

\* SELECT * FROM agents WHERE id = ? and the 200 answer; toCamelCase of a
\* missing row throws.
AgentPatchFetch(p) ==
    /\ call[p].pc = "fetch" /\ call[p].op = "patchAgent"
    /\ LET rows == AgentsById(agents, call[p].id)
       IN  IF rows = {}
           THEN Respond(p, [op |-> "patchAgent", req |-> call[p].req,
                            status |-> 500, error |-> "Internal server error"])
           ELSE \E row \in rows :
                  Respond(p, [op |-> "patchAgent", req |-> call[p].req,
                              status |-> 200, body |-> agentToCamelCase(row)])
    /\ call' = [call EXCEPT ![p] = Idle]
    /\ UNCHANGED <<sessions, leadsTable, leads, adminToken, gate, now, agents, seed, nops>>

(***************************************************************************)
(* DELETE /api/agents/:id                                                  *)
(***************************************************************************)

\* The existence check.  No middleware stands before the handler.
AgentDeleteBegin(p) ==
    /\ CanBegin(p)
    /\ \E h \in AdminHeaders, id \in KnownIds :
         LET req == [xAdminToken |-> h[1], authorization |-> h[2], id |-> id]
         IN  IF AgentsById(agents, id) = {}
             THEN /\ Respond(p, [op |-> "deleteAgent", req |-> req, status |-> 404,
                                 error |-> "Agent not found"])
                  /\ UNCHANGED call
             ELSE /\ call' = [call EXCEPT ![p] =
                                [op |-> "deleteAgent", pc |-> "delete", req |-> req,
                                 id |-> id]]
                  /\ UNCHANGED resp
    /\ nops' = nops + 1
    /\ UNCHANGED <<sessions, leadsTable, leads, adminToken, gate, now, agents, seed>>

\* A delete that leaves the sessions of the agent behind.
dbDeleteAgentNoCascade(agentRows, sessionRows, id) ==
    [agents |-> {a \in agentRows : a.id # id}, sessions |-> sessionRows]

\* DELETE FROM agents WHERE id = ?, with the rows of sessions that refer to
\* the agent (FOREIGN KEY (id_agent) ... ON DELETE CASCADE).
dbDeleteAgent(agentRows, sessionRows, id) ==
    [agents |-> {a \in agentRows : a.id # id},
     sessions |-> {x \in sessionRows : x.id_agent # id}]

\* The DELETE and the 204 answer.
AgentDeleteRun(p) ==
    /\ call[p].pc = "delete" /\ call[p].op = "deleteAgent"
    /\ agents' = dbDeleteAgent(agents, sessions, call[p].id).agents
    /\ sessions' = dbDeleteAgent(agents, sessions, call[p].id).sessions
    /\ Respond(p, [op |-> "deleteAgent", req |-> call[p].req, status |-> 204])
    /\ call' = [call EXCEPT ![p] = Idle]
    /\ UNCHANGED <<leadsTable, leads, adminToken, gate, now, seed, nops>>

(***************************************************************************)
(* POST /api/auth/login                                                    *)
(***************************************************************************)
LoginInputs ==
    [login : {Undefined, LoginDefault, <<"bob">>, PhoneOk, <<"nobody">>},
     password : {PasswordDefault, <<"pw">>}]

\* The agent part of the login answer.
LoginProfile(row) ==
    [id |-> row.id, firstName |-> row.first_name, lastName |-> row.last_name,
     email |-> OrUndefined(row.email), phone |-> row.phone,
     login |-> OrUndefined(row.login)]

\* A login handler that lets an agent without a password hash in.
LoginAnswerWithoutHashCheck(req, found, time) ==
    IF found = {}
    THEN [op |-> "login", req |-> req, status |-> 401,
          error |-> "Invalid login or password"]
    ELSE LET row == CHOOSE r \in found : TRUE
         IN  IF Truthy(row.password_hash)
                  /\ ~bcryptCompare(req.password, row.password_hash)
             THEN [op |-> "login", req |-> req, status |-> 401,
                   error |-> "Invalid login or password"]
             ELSE [op |-> "login", req |-> req, status |-> 200,
                   token |-> jwtSign(row.id, JWT_SECRET, time),
                   agent |-> LoginProfile(row)]

\* The answer of the login handler once the SELECT has returned: found is
\* the set holding rows[0], empty when no row matched.
LoginAnswer(req, found, time) ==
    IF found = {}
    THEN [op |-> "login", req |-> req, status |-> 401,
          error |-> "Invalid login or password"]
    ELSE LET row == CHOOSE r \in found : TRUE
         IN  IF ~Truthy(row.password_hash)
             THEN [op |-> "login", req |-> req, status |-> 401,
                   error |-> "Password not set for this agent"]
             ELSE IF ~bcryptCompare(req.password, row.password_hash)
             THEN [op |-> "login", req |-> req, status |-> 401,
                   error |-> "Invalid login or password"]
             ELSE [op |-> "login", req |-> req, status |-> 200,
                   token |-> jwtSign(row.id, JWT_SECRET, time),
                   agent |-> LoginProfile(row)]

\* The whole handler: one SELECT, rows[0] of its result (any of the matching
\* rows), and the answer.
Login(p) ==
    /\ CanBegin(p)
    /\ \E req \in LoginInputs :
         IF ~Truthy(req.login) \/ ~Truthy(req.password)
         THEN Respond(p, [op |-> "login", req |-> req, status |-> 400,
                          error |-> "Login and password are required"])
         ELSE LET rows == AgentsByCredential(agents, req.login)
              IN  IF rows = {}
                  THEN Respond(p, LoginAnswer(req, {}, now))
                  ELSE \E row \in rows : Respond(p, LoginAnswer(req, {row}, now))
    /\ nops' = nops + 1
    /\ UNCHANGED <<sessions, leadsTable, leads, adminToken, gate, now, agents, seed, call>>

(***************************************************************************)
(* GET /api/auth/me                                                        *)
(***************************************************************************)

\* Tokens a caller can hold: those the login handler has sent, and tokens
\* signed with another key for the same identifiers.
IssuedTokens == IF resp.op = "login" /\ resp.status = 200 THEN {resp.token} ELSE {}

MeAuthorizations ==
    {Undefined, Bearer \o <<"garbage">>}
    \cup {Bearer \o t : t \in IssuedTokens}
    \cup IssuedTokens
    \cup {Bearer \o jwtSign(DefaultAgentId, ForgedKey, now)}

\* The extended profile.
MeProfile(row) ==
    [id |-> row.id, firstName |-> row.first_name, lastName |-> row.last_name,
     email |-> OrUndefined(row.email), phone |-> row.phone,
     login |-> OrUndefined(row.login)]

\* The answer of the handler given the value it finds in req.agentId.  The
\* storage driver is handed that value as the statement's parameter: with
\* undefined it either refuses the statement (the handler's catch answers
\* 500) or binds NULL, which matches no row (404); refuses tells which.
MeAnswer(req, agentId, refuses) ==
    IF agentId = Undefined
    THEN IF refuses
         THEN [op |-> "me", req |-> req, lookup |-> TRUE, status |-> 500,
               error |-> "Internal server error"]
         ELSE [op |-> "me", req |-> req, lookup |-> TRUE, status |-> 404,
               error |-> "Agent not found"]
    ELSE IF AgentsById(agents, agentId) = {}
    THEN [op |-> "me", req |-> req, lookup |-> TRUE, status |-> 404,
          error |-> "Agent not found"]
    ELSE [op |-> "me", req |-> req, lookup |-> TRUE, status |-> 200,
          body |-> MeProfile(CHOOSE a \in agents : a.id = agentId)]

\* req.agentId as the route finds it: the router registers the handler alone,
\* no middleware runs before it, so nothing has set the property.
MeAgentId(authorization) == Undefined

\* The whole handler.
GetMe(p) ==
    /\ CanBegin(p)
    /\ \E a \in MeAuthorizations, refuses \in BOOLEAN :
         Respond(p, MeAnswer([authorization |-> a, time |-> now], MeAgentId(a), refuses))
    /\ nops' = nops + 1
    /\ UNCHANGED <<sessions, leadsTable, leads, adminToken, gate, now, agents, seed, call>>

\* Time passes.
Tick ==
    /\ now < MaxTime
    /\ now' = now + 1
    /\ UNCHANGED <<sessions, leadsTable, leads, adminToken, gate, agents, seed, call, resp, nops>>

(***************************************************************************)
(* Leads router: normalizers.                                              *)
(***************************************************************************)

\* The first whitespace-free run of s and what follows it (s starts with a
\* non-space character).
RECURSIVE TokenLen(_)
TokenLen(s) ==
    IF s = <<>> \/ IsSpace(Head(s)) THEN 0 ELSE 1 + TokenLen(Tail(s))

\* fullName.trim().split(/\s+/).filter(p => p.length > 0)
RECURSIVE SplitWords(_)
SplitWords(s) ==
    LET t == TrimStart(s)
    IN  IF t = <<>> THEN <<>>
        ELSE <<SubSeq(t, 1, TokenLen(t))>>
             \o SplitWords(SubSeq(t, TokenLen(t) + 1, Len(t)))

\* parts.join(' ')
RECURSIVE JoinWords(_)
JoinWords(parts) ==
    IF parts = <<>> THEN <<>>
    ELSE IF Len(parts) = 1 THEN parts[1]
    ELSE parts[1] \o <<" ">> \o JoinWords(Tail(parts))

\* A parseName that takes the second token as the last name.
parseNameSecondIsLast(fullName) ==
    LET parts == SplitWords(fullName)
    IN  IF Len(parts) = 0
        THEN [firstName |-> <<>>, lastName |-> <<>>, middleName |-> Undefined]
        ELSE IF Len(parts) = 1
        THEN [firstName |-> parts[1], lastName |-> <<>>, middleName |-> Undefined]
        ELSE [firstName |-> parts[1], lastName |-> parts[2],
              middleName |-> OrUndefined(JoinWords(SubSeq(parts, 3, Len(parts))))]

\* parseName
parseName(fullName) ==
    LET parts == SplitWords(fullName)
    IN  IF Len(parts) = 0
        THEN [firstName |-> <<>>, lastName |-> <<>>, middleName |-> Undefined]
        ELSE IF Len(parts) = 1
        THEN [firstName |-> parts[1], lastName |-> <<>>, middleName |-> Undefined]
        ELSE IF Len(parts) = 2
        THEN [firstName |-> parts[1], lastName |-> parts[2], middleName |-> Undefined]
        ELSE [firstName |-> parts[1], lastName |-> parts[Len(parts)],
              middleName |-> OrUndefined(JoinWords(SubSeq(parts, 2, Len(parts) - 1)))]

TMe == <<"t", ".", "m", "e", "/">>
TelegramMe == <<"t", "e", "l", "e", "g", "r", "a", "m", ".", "m", "e", "/">>

\* A parseContacts that knows telegram handles but not telegram links.
parseContactsHandlesOnly(contacts) ==
    LET trimmed == Trim(contacts)
    IN  IF StartsWith(trimmed, <<"@">>)
        THEN [phone |-> Undefined, telegram |-> trimmed]
        ELSE [phone |-> trimmed, telegram |-> Undefined]

\* parseContacts
parseContacts(contacts) ==
    LET trimmed == Trim(contacts)
    IN  IF StartsWith(trimmed, <<"@">>)
        THEN [phone |-> Undefined, telegram |-> trimmed]
        ELSE IF Includes(trimmed, TMe) \/ Includes(trimmed, TelegramMe)
        THEN [phone |-> Undefined, telegram |-> trimmed]
        ELSE [phone |-> trimmed, telegram |-> Undefined]

(***************************************************************************)
(* POST /api/leads                                                         *)
(***************************************************************************)

\* The name the handler resolves: from name when it is given, else from
\* firstName and lastName when both are given; named tells whether either
\* shape gave a name.
ResolveName(b) ==
    IF Truthy(b.name)
    THEN LET parsed == parseName(b.name)
         IN  [named |-> TRUE, firstName |-> parsed.firstName,
              lastName |-> parsed.lastName,
              middleName |-> IF Truthy(parsed.middleName) /\ ~Truthy(b.middleName)
                             THEN parsed.middleName ELSE b.middleName]
    ELSE IF Truthy(b.firstName) /\ Truthy(b.lastName)
    THEN [named |-> TRUE, firstName |-> b.firstName, lastName |-> b.lastName,
          middleName |-> b.middleName]
    ELSE [named |-> FALSE, firstName |-> <<>>, lastName |-> <<>>,
          middleName |-> b.middleName]

\* A resolution that keeps an explicit phone next to an explicit telegram.
ResolveContactsBoth(b) ==
    IF Truthy(b.contacts) THEN parseContacts(b.contacts)
    ELSE [phone |-> IF Truthy(b.phone) THEN b.phone ELSE Undefined,
          telegram |-> IF Truthy(b.telegram) THEN b.telegram ELSE Undefined]

\* A resolution that prefers the explicit phone and telegram fields.
ResolveContactsExplicitFirst(b) ==
    IF Truthy(b.telegram) THEN [phone |-> Undefined, telegram |-> b.telegram]
    ELSE IF Truthy(b.phone) THEN [phone |-> b.phone, telegram |-> Undefined]
    ELSE IF Truthy(b.contacts) THEN parseContacts(b.contacts)
    ELSE [phone |-> Undefined, telegram |-> Undefined]

\* The contact the handler resolves: from contacts, else telegram, else phone.
ResolveContacts(b) ==
    IF Truthy(b.contacts) THEN parseContacts(b.contacts)
    ELSE IF Truthy(b.telegram) THEN [phone |-> Undefined, telegram |-> b.telegram]
    ELSE IF Truthy(b.phone) THEN [phone |-> b.phone, telegram |-> Undefined]
    ELSE [phone |-> Undefined, telegram |-> Undefined]

\* A validation that stops at the first rule violated.
LeadCreateErrorsFirstOnly(b) ==
    LET n == ResolveName(b)
        c == ResolveContacts(b)
    IN  IF Required(b.source) THEN {<<"source", "Source is required">>}
        ELSE IF ~n.named
        THEN {<<"name", "Name is required (use \"name\" or \"firstName\" + \"lastName\")">>}
        ELSE IF Required(n.firstName) THEN {<<"firstName", "First name is required">>}
        ELSE IF Required(n.lastName) THEN {<<"lastName", "Last name is required">>}
        ELSE IF ~Truthy(c.phone) /\ ~Truthy(c.telegram)
        THEN {<<"contacts", "Phone or Telegram contact is required">>}
        ELSE IF Truthy(c.phone) /\ ~validatePhone(c.phone)
        THEN {<<"phone", "Invalid phone format">>}
        ELSE {}

\* A validation without the rule on the contact channel.
LeadCreateErrorsNoContactRule(b) ==
    LET n == ResolveName(b)
        c == ResolveContacts(b)
    IN  (IF Required(b.source) THEN {<<"source", "Source is required">>} ELSE {})
        \cup (IF ~n.named
              THEN {<<"name", "Name is required (use \"name\" or \"firstName\" + \"lastName\")">>}
              ELSE {})
        \cup (IF Required(n.firstName) THEN {<<"firstName", "First name is required">>} ELSE {})
        \cup (IF Required(n.lastName) THEN {<<"lastName", "Last name is required">>} ELSE {})
        \cup (IF Truthy(c.phone) /\ ~validatePhone(c.phone)
              THEN {<<"phone", "Invalid phone format">>} ELSE {})

\* The errors mapping of lead creation, as a set of <<field, message>>.
LeadCreateErrors(b) ==
    LET n == ResolveName(b)
        c == ResolveContacts(b)
    IN  (IF Required(b.source) THEN {<<"source", "Source is required">>} ELSE {})
        \cup (IF ~n.named
              THEN {<<"name", "Name is required (use \"name\" or \"firstName\" + \"lastName\")">>}
              ELSE {})
        \cup (IF Required(n.firstName) THEN {<<"firstName", "First name is required">>} ELSE {})
        \cup (IF Required(n.lastName) THEN {<<"lastName", "Last name is required">>} ELSE {})
        \cup (IF ~Truthy(c.phone) /\ ~Truthy(c.telegram)
              THEN {<<"contacts", "Phone or Telegram contact is required">>} ELSE {})
        \cup (IF Truthy(c.phone) /\ ~validatePhone(c.phone)
              THEN {<<"phone", "Invalid phone format">>} ELSE {})

\* A row whose status is left to nobody.
LeadCreateRowStatusNull(id, b, time) ==
    LET n == ResolveName(b)
        c == ResolveContacts(b)
    IN  [id |-> id, source |-> Trim(b.source),
         first_name |-> Trim(n.firstName), last_name |-> Trim(n.lastName),
         middle_name |-> TrimOrNull(n.middleName),
         phone |-> TrimOrNull(c.phone), telegram |-> TrimOrNull(c.telegram),
         id_agent |-> TrimOrNull(b.idAgent), status |-> Null,
         created_at |-> time]

\* The row the handler inserts; created_at is the database's clock.
LeadCreateRow(id, b, time) ==
    LET n == ResolveName(b)
        c == ResolveContacts(b)
    IN  [id |-> id, source |-> Trim(b.source),
         first_name |-> Trim(n.firstName), last_name |-> Trim(n.lastName),
         middle_name |-> TrimOrNull(n.middleName),
         phone |-> TrimOrNull(c.phone), telegram |-> TrimOrNull(c.telegram),
         id_agent |-> TrimOrNull(b.idAgent), status |-> <<"new">>,
         created_at |-> time]

\* INSERT INTO leads (..., phone, telegram, ...).  The statement names the
\* columns of LeadRow, where phone and telegram are nullable.  The table that
\* initDatabase creates on a database without one ("created") has no column
\* telegram, so the statement throws there; a table that was there before
\* ("existing") is left as it is by CREATE TABLE IF NOT EXISTS and takes the
\* row.
dbInsertLead(which, table, row) ==
    IF which = "created" \/ \E l \in table : l.id = row.id
    THEN [ok |-> FALSE, table |-> table]
    ELSE [ok |-> TRUE, table |-> table \cup {row}]

\* Requests to the leads router in one run.
MaxLeadOps == 2

PhoneA == <<"+", "7", " ", "9", "0", "0", " ", "0", "0", "0", "-", "0", "0", "-", "0", "0">>
PhoneB == <<"8", "9", "0", "0", "1", "1", "1", "2", "2", "3", "3">>
Blank == <<" ", " ">>

\* firstName and lastName of the bodies tried.
LegacyNames == {<<Undefined, Undefined>>, <<<<"Bob">>, <<"Ray">>>>}

\* telegram and phone of the bodies tried.
LegacyContacts ==
    {<<Undefined, Undefined>>, <<<<"@", "t">>, Undefined>>, <<Blank, Undefined>>,
     <<Undefined, PhoneB>>, <<Undefined, <<"1", "2">>>>, <<<<"@", "t">>, <<"1", "2">>>>}

LeadInputs ==
    {[source |-> s, name |-> n, firstName |-> fl[1], lastName |-> fl[2],
      middleName |-> Undefined, contacts |-> c, telegram |-> tp[1],
      phone |-> tp[2], idAgent |-> Undefined] :
        s \in {Undefined, <<"web">>},
        n \in {Undefined, <<"Ann">>, <<"Ann", " ", "Mae", " ", "Lee">>},
        fl \in LegacyNames,
        c \in {Undefined, <<"@", "x">>, PhoneA},
        tp \in LegacyContacts}

\* A request to the leads router can be taken.
CanBeginLead == seed = "done" /\ nops < MaxLeadOps

\* The whole handler on body b: validation, the INSERT, the SELECT of the
\* new row and the answer.
LeadCreateOf(b) ==
    LET errors == LeadCreateErrors(b)
        row == LeadCreateRow(Uuid(nops + 1), b, now)
        r == dbInsertLead(leadsTable, leads, row)
    IN  /\ IF errors # {}
           THEN /\ Respond(1, [op |-> "createLead", req |-> b, status |-> 400,
                               errors |-> errors])
                /\ UNCHANGED leads
           ELSE IF ~r.ok
           THEN /\ Respond(1, [op |-> "createLead", req |-> b, status |-> 500,
                               error |-> "Internal server error"])
                /\ UNCHANGED leads
           ELSE /\ leads' = r.table
                /\ Respond(1, [op |-> "createLead", req |-> b, status |-> 201,
                               body |-> [id |-> row.id, status |-> row.status,
                                         createdAt |-> row.created_at]])
        /\ nops' = nops + 1
        /\ UNCHANGED <<sessions, leadsTable, adminToken, gate, now, agents, seed, call>>

LeadCreate ==
    /\ CanBeginLead
    /\ \E b \in LeadInputs : LeadCreateOf(b)

(***************************************************************************)
(* PATCH /api/leads/:id                                                    *)
(***************************************************************************)
LeadIds == {l.id : l \in leads} \cup {<<"no-such-id">>}

LeadPatchInputs ==
    [status : {Undefined, Null, <<>>, <<"done">>},
     idAgent : {Undefined, Null, <<>>, DefaultAgentId, <<"no-such-agent">>}]

\* toCamelCase (leads)
leadToCamelCase(row) ==
    [id |-> row.id, source |-> row.source, firstName |-> row.first_name,
     lastName |-> row.last_name, middleName |-> OrUndefined(row.middle_name),
     phone |-> OrUndefined(row.phone), telegram |-> OrUndefined(row.telegram),
     idAgent |-> OrUndefined(row.id_agent), status |-> row.status,
     createdAt |-> row.created_at]

\* A SET list that stores idAgent as it came.
LeadPatchUpdatesIdAgentAsGiven(b) ==
    (IF b.status # Undefined THEN {<<"status", b.status>>} ELSE {})
    \cup (IF b.idAgent # Undefined THEN {<<"id_agent", b.idAgent>>} ELSE {})

\* The SET list of the UPDATE.
LeadPatchUpdates(b) ==
    (IF b.status # Undefined THEN {<<"status", b.status>>} ELSE {})
    \cup (IF b.idAgent # Undefined THEN {<<"id_agent", TrimOrNull(b.idAgent)>>} ELSE {})

\* An UPDATE without its WHERE.
dbUpdateLeadEveryRow(table, id, updates) ==
    {ApplyUpdates(l, updates) : l \in table}

\* UPDATE leads SET ... WHERE id = ?
dbUpdateLead(table, id, updates) ==
    {IF l.id = id THEN ApplyUpdates(l, updates) ELSE l : l \in table}

\* The whole handler: the 400 answers, the UPDATE, the SELECT and the answer.
LeadPatch ==
    /\ CanBeginLead
    /\ \E id \in LeadIds, b \in LeadPatchInputs :
         LET req == [id |-> id, body |-> b]
             updated == dbUpdateLead(leads, id, LeadPatchUpdates(b))
         IN  IF ~Truthy(b.status) /\ b.idAgent = Undefined
             THEN /\ Respond(1, [op |-> "patchLead", req |-> req, status |-> 400,
                                 error |-> "At least status or idAgent must be provided"])
                  /\ UNCHANGED leads
             ELSE IF b.status = Null
             THEN /\ Respond(1, [op |-> "patchLead", req |-> req, status |-> 400,
                                 error |-> "Status must be a string"])
                  /\ UNCHANGED leads
             ELSE /\ leads' = updated
                  /\ IF \E l \in updated : l.id = id
                     THEN Respond(1, [op |-> "patchLead", req |-> req, status |-> 200,
                                      body |-> leadToCamelCase(
                                                 CHOOSE l \in updated : l.id = id)])
                     ELSE Respond(1, [op |-> "patchLead", req |-> req, status |-> 404,
                                      error |-> "Lead not found"])
    /\ nops' = nops + 1
    /\ UNCHANGED <<sessions, leadsTable, adminToken, gate, now, agents, seed, call>>

(***************************************************************************)
(* GET /api/leads                                                          *)
(***************************************************************************)

\* The leading run of decimal digits of s.
RECURSIVE DigitsPrefix(_)
DigitsPrefix(s) ==
    IF s = <<>> \/ ~IsDigit(Head(s)) THEN <<>>
    ELSE <<Head(s)>> \o DigitsPrefix(Tail(s))

DigitValue(c) == CHOOSE d \in 0..9 : ToString(d) = c

RECURSIVE DecimalValue(_)
DecimalValue(ds) ==
    IF ds = <<>> THEN 0
    ELSE 10 * DecimalValue(SubSeq(ds, 1, Len(ds) - 1)) + DigitValue(ds[Len(ds)])

\* parseInt(s, 10): leading whitespace, a sign, then digits; what follows the
\* digits is ignored; NaN without a digit.
parseInt(s) ==
    LET t == TrimStart(s)
        signed == t # <<>> /\ Head(t) \in {"-", "+"}
        ds == DigitsPrefix(IF signed THEN Tail(t) ELSE t)
    IN  [nan |-> ds = <<>>, neg |-> signed /\ Head(t) = "-",
         abs |-> DecimalValue(ds)]

\* limit is given and parses to a number > 0.
HasLimit(q) ==
    /\ Truthy(q.limit)
    /\ ~parseInt(q.limit).nan
    /\ ~parseInt(q.limit).neg
    /\ parseInt(q.limit).abs > 0

\* offset is given and parses to a number >= 0.
HasOffset(q) ==
    /\ Truthy(q.offset)
    /\ ~parseInt(q.offset).nan
    /\ (~parseInt(q.offset).neg \/ parseInt(q.offset).abs = 0)

\* WHERE status = ? AND id_agent = ?, each condition only for a non-empty
\* query parameter.
LeadsMatching(table, q) ==
    {l \in table : /\ Truthy(q.status) => l.status = q.status
                   /\ Truthy(q.idAgent) => l.id_agent = q.idAgent}

\* ORDER BY created_at DESC: every order of the rows that puts later
\* creation times first; rows of the same time come in any order.
RECURSIVE OrderedByCreatedAtDesc(_)
OrderedByCreatedAtDesc(rows) ==
    IF rows = {} THEN {<<>>}
    ELSE UNION {{<<r>> \o t : t \in OrderedByCreatedAtDesc(rows \ {r})} :
                  r \in {x \in rows : \A o \in rows : o.created_at <= x.created_at}}

\* A page that cuts the rows to the limit before it skips the offset.
SqlListPageLimitFirst(q, ord) ==
    LET off == IF HasOffset(q) THEN parseInt(q.offset).abs ELSE 0
        lim == IF HasLimit(q) THEN parseInt(q.limit).abs ELSE Len(ord)
    IN  [ok |-> TRUE,
         rows |-> SubSeq(SubSeq(ord, 1, Min({Len(ord), lim})), off + 1,
                         Min({Len(ord), lim}))]

\* ... ORDER BY created_at DESC [LIMIT ?] [OFFSET ?] on the ordered rows ord.
\* MySQL takes OFFSET only after LIMIT: the statement with OFFSET alone is
\* a syntax error, and execute throws.
SqlListPage(q, ord) ==
    LET off == IF HasOffset(q) THEN parseInt(q.offset).abs ELSE 0
        lim == IF HasLimit(q) THEN parseInt(q.limit).abs ELSE Len(ord)
    IN  IF HasOffset(q) /\ ~HasLimit(q)
        THEN [ok |-> FALSE, rows |-> <<>>]
        ELSE [ok |-> TRUE,
              rows |-> SubSeq(ord, off + 1, Min({Len(ord), off + lim}))]

\* The answer of the handler to query q when the database orders the
\* matching rows as ord.
LeadListAnswer(q, ord) ==
    LET page == SqlListPage(q, ord)
    IN  IF page.ok
        THEN [op |-> "listLeads", req |-> q, status |-> 200,
              body |-> [i \in 1..Len(page.rows) |-> leadToCamelCase(page.rows[i])]]
        ELSE [op |-> "listLeads", req |-> q, status |-> 500,
              error |-> "Internal server error"]

LeadQuery(status, idAgent, limit, offset) ==
    [status |-> status, idAgent |-> idAgent, limit |-> limit, offset |-> offset]

LeadQueries ==
    {LeadQuery(Undefined, Undefined, Undefined, Undefined),
     LeadQuery(<<"new">>, Undefined, Undefined, Undefined),
     LeadQuery(<<"done">>, Undefined, Undefined, Undefined),
     LeadQuery(Undefined, DefaultAgentId, Undefined, Undefined),
     LeadQuery(<<"new">>, DefaultAgentId, <<"1">>, Undefined),
     LeadQuery(Undefined, Undefined, <<"2">>, <<"1">>),
     LeadQuery(Undefined, Undefined, <<"2">>, Undefined),
     LeadQuery(Undefined, Undefined, Undefined, <<"1">>),
     LeadQuery(Undefined, Undefined, <<"2">>, <<"0">>),
     LeadQuery(Undefined, Undefined, <<"0">>, <<"-", "1">>),
     LeadQuery(Undefined, Undefined, <<"a", "b">>, <<"x">>),
     LeadQuery(Undefined, Undefined, <<"2", "x">>, <<"-", "1">>)}

\* The whole handler.
LeadList ==
    /\ seed = "done"
    /\ \E q \in LeadQueries :
         \E ord \in OrderedByCreatedAtDesc(LeadsMatching(leads, q)) :
           Respond(1, LeadListAnswer(q, ord))
    /\ UNCHANGED <<sessions, leadsTable, leads, adminToken, gate, now, agents, seed, call, nops>>

\* Leads stored, and seconds that pass, in a run that lists leads.
MaxListLeads == 5
MaxListTime == 4

\* The bodies of the leads created in a run that lists leads.
ListLeadInputs ==
    {[source |-> <<"web">>, name |-> <<"Ann", " ", "Lee">>, firstName |-> Undefined,
      lastName |-> Undefined, middleName |-> Undefined, contacts |-> <<"@", "x">>,
      telegram |-> Undefined, phone |-> Undefined, idAgent |-> a] :
        a \in {Undefined, DefaultAgentId}}

\* A lead creation in a run that lists leads; the runs taken are those that
\* create no two leads within the same second.
ListLeadCreate ==
    /\ seed = "done"
    /\ nops < MaxListLeads
    /\ \A l \in leads : l.created_at < now
    /\ \E b \in ListLeadInputs : LeadCreateOf(b)

\* A second passes on the database's clock.
ListTick ==
    /\ now < MaxListTime
    /\ now' = now + 1
    /\ UNCHANGED <<sessions, leadsTable, leads, adminToken, gate, agents, seed, call, resp, nops>>

(***************************************************************************)
(* Sessions router.  Rows of sessions carry the columns id, id_agent,      *)
(* id_lead, context_ai, ai_response, status, created_at.  The table has    *)
(* FOREIGN KEY (id_agent) REFERENCES agents(id) ON DELETE CASCADE and      *)
(* FOREIGN KEY (id_lead) REFERENCES leads(id) ON DELETE SET NULL; the      *)
(* server is taken to accept the ISO text that the handlers pass for       *)
(* created_at and updated_at.                                              *)
(***************************************************************************)

\* What generateAgentContext can do: throw because no API key is configured,
\* return its own fallback text because the call to the model failed, or
\* return the text of the model (which may be empty).
AiOutcomes ==
    {[kind |-> "noKey", text |-> <<>>],
     [kind |-> "failed", text |-> <<>>],
     [kind |-> "ok", text |-> <<"advice">>],
     [kind |-> "ok", text |-> <<>>]}

\* `${agent.last_name} ${agent.first_name}` (middle_name is not kept in the
\* rows of this model)
AgentName(row) == row.last_name \o <<" ">> \o row.first_name

\* The text generateAgentContext returns from its catch.
FallbackContext(agentName) ==
    <<"context of ">> \o agentName \o <<": the list of clients; work with the clients">>

\* The text the handler builds when generateAgentContext throws.
BasicContext(agentName, nClients) ==
    <<"context of ">> \o agentName \o <<": ", ToString(nClients), " clients">>

\* A handler that gives up the session when generateAgentContext throws.
SessionContextOrNothing(agent, nClients, ai) ==
    IF ai.kind = "noKey"
    THEN [contextAi |-> <<>>, aiResponse |-> Null]
    ELSE IF ai.kind = "failed"
    THEN [contextAi |-> FallbackContext(AgentName(agent)),
          aiResponse |-> FallbackContext(AgentName(agent))]
    ELSE [contextAi |-> ai.text, aiResponse |-> ai.text]

\* contextAi and aiResponse after the try/catch around generateAgentContext.
SessionContext(agent, nClients, ai) ==
    IF ai.kind = "noKey"
    THEN [contextAi |-> BasicContext(AgentName(agent), nClients),
          aiResponse |-> Null]
    ELSE IF ai.kind = "failed"
    THEN [contextAi |-> FallbackContext(AgentName(agent)),
          aiResponse |-> FallbackContext(AgentName(agent))]
    ELSE [contextAi |-> ai.text, aiResponse |-> ai.text]

\* toCamelCase (sessions)
sessionToCamelCase(row) ==
    [id |-> row.id, idAgent |-> row.id_agent, idLead |-> OrUndefined(row.id_lead),
     contextAi |-> OrUndefined(row.context_ai),
     aiResponse |-> OrUndefined(row.ai_response),
     status |-> row.status, createdAt |-> row.created_at]

SessionsById(table, id) == {x \in table : x.id = id}

\* An INSERT into a table without foreign keys.
dbInsertSessionNoForeignKey(agentRows, leadRows, table, row) ==
    IF \E x \in table : x.id = row.id
    THEN [ok |-> FALSE, table |-> table]
    ELSE [ok |-> TRUE, table |-> table \cup {row}]

\* INSERT INTO sessions: refused for a repeated id, for an id_agent that no
\* agent has, and for a non-null id_lead that no lead has.
dbInsertSession(agentRows, leadRows, table, row) ==
    IF \/ \E x \in table : x.id = row.id
       \/ \A a \in agentRows : a.id # row.id_agent
       \/ row.id_lead # Null /\ \A l \in leadRows : l.id # row.id_lead
    THEN [ok |-> FALSE, table |-> table]
    ELSE [ok |-> TRUE, table |-> table \cup {row}]

SessionInputs ==
    [idAgent : {Undefined} \cup KnownIds,
     idLead : {Undefined, <<"no-such-lead">>} \cup {l.id : l \in leads}]

\* Validation, the SELECT of the agent, the SELECT of the agent's leads and
\* generateAgentContext.
SessionCreateBegin(p) ==
    /\ CanBegin(p)
    /\ \E req \in SessionInputs, ai \in AiOutcomes :
         IF ~Truthy(req.idAgent)
         THEN /\ Respond(p, [op |-> "createSession", req |-> req, status |-> 400,
                             error |-> "idAgent is required"])
              /\ UNCHANGED call
         ELSE IF AgentsById(agents, req.idAgent) = {}
         THEN /\ Respond(p, [op |-> "createSession", req |-> req, status |-> 404,
                             error |-> "Agent not found"])
              /\ UNCHANGED call
         ELSE LET agent == CHOOSE a \in agents : a.id = req.idAgent
                  nClients == Cardinality({l \in leads : l.id_agent = req.idAgent})
                  c == SessionContext(agent, nClients, ai)
              IN  /\ call' = [call EXCEPT ![p] =
                                [op |-> "createSession", pc |-> "insert", req |-> req,
                                 id |-> Uuid(nops + 1), ai |-> ai.kind,
                                 contextAi |-> c.contextAi,
                                 aiResponse |-> c.aiResponse]]
                  /\ UNCHANGED resp
    /\ nops' = nops + 1
    /\ UNCHANGED <<sessions, leadsTable, leads, adminToken, gate, now, agents, seed>>

\* The row the handler inserts.
SessionCreateRow(c, time) ==
    [id |-> c.id, id_agent |-> c.req.idAgent,
     id_lead |-> IF Truthy(c.req.idLead) THEN c.req.idLead ELSE Null,
     context_ai |-> c.contextAi, ai_response |-> c.aiResponse,
     status |-> <<"active">>, created_at |-> time]

\* The INSERT; a statement that throws is answered 500.
SessionCreateInsert(p) ==
    /\ call[p].pc = "insert" /\ call[p].op = "createSession"
    /\ LET r == dbInsertSession(agents, leads, sessions,
                                SessionCreateRow(call[p], now))
       IN  IF r.ok
           THEN /\ sessions' = r.table
                /\ call' = [call EXCEPT ![p].pc = "fetch"]
                /\ UNCHANGED resp
           ELSE /\ Respond(p, [op |-> "createSession", req |-> call[p].req,
                               ai |-> call[p].ai, status |-> 500,
                               error |-> "Internal server error"])
                /\ call' = [call EXCEPT ![p] = Idle]
                /\ UNCHANGED sessions
    /\ UNCHANGED <<leadsTable, leads, adminToken, gate, now, agents, seed, nops>>

\* SELECT * FROM sessions WHERE id = ? and the 201 answer; toCamelCase of a
\* missing row throws.
SessionCreateFetch(p) ==
    /\ call[p].pc = "fetch" /\ call[p].op = "createSession"
    /\ LET rows == SessionsById(sessions, call[p].id)
       IN  IF rows = {}
           THEN Respond(p, [op |-> "createSession", req |-> call[p].req,
                            ai |-> call[p].ai, status |-> 500,
                            error |-> "Internal server error"])
           ELSE \E row \in rows :
                  Respond(p, [op |-> "createSession", req |-> call[p].req,
                              ai |-> call[p].ai, status |-> 201,
                              body |-> sessionToCamelCase(row)])
    /\ call' = [call EXCEPT ![p] = Idle]
    /\ UNCHANGED <<sessions, leadsTable, leads, adminToken, gate, now, agents, seed, nops>>

(***************************************************************************)
(* PATCH /api/sessions/:id                                                 *)
(***************************************************************************)
SessionIds == {x.id : x \in sessions} \cup {<<"no-such-id">>}

SessionPatchInputs ==
    [status : {Undefined, Null, <<"closed">>},
     idLead : {Undefined, Null, <<>>, <<"no-such-lead">>} \cup {l.id : l \in leads}]

\* A SET list that stores idLead as it was given.
SessionPatchUpdatesIdLeadAsGiven(b) ==
    (IF b.status # Undefined THEN {<<"status", b.status>>} ELSE {})
    \cup (IF b.idLead # Undefined
          THEN {<<"id_lead", b.idLead>>} ELSE {})

\* The SET list of the UPDATE.
SessionPatchUpdates(b) ==
    (IF b.status # Undefined THEN {<<"status", b.status>>} ELSE {})
    \cup (IF b.idLead # Undefined
          THEN {<<"id_lead", IF Truthy(b.idLead) THEN b.idLead ELSE Null>>} ELSE {})

\* UPDATE sessions SET ... WHERE id = ?: refused when it would give a row a
\* null status (status ... NOT NULL) or a non-null id_lead that no lead has
\* (FOREIGN KEY (id_lead)).
dbUpdateSession(leadRows, table, id, updates) ==
    LET after == {IF x.id = id THEN ApplyUpdates(x, updates) ELSE x : x \in table}
    IN  IF \E x \in after : \/ x.status = Null
                            \/ x.id_lead # Null /\ \A l \in leadRows : l.id # x.id_lead
        THEN [ok |-> FALSE, table |-> table]
        ELSE [ok |-> TRUE, table |-> after]

\* The existence check and the answers sent before the UPDATE.
SessionPatchBegin(p) ==
    /\ CanBegin(p)
    /\ \E id \in SessionIds, b \in SessionPatchInputs :
         LET req == [id |-> id, body |-> b]
         IN  IF SessionsById(sessions, id) = {}
             THEN /\ Respond(p, [op |-> "patchSession", req |-> req, status |-> 404,
                                 error |-> "Session not found"])
                  /\ UNCHANGED call
             ELSE IF SessionPatchUpdates(b) = {}
             THEN /\ Respond(p, [op |-> "patchSession", req |-> req, status |-> 400,
                                 error |-> "No fields to update"])
                  /\ UNCHANGED call
             ELSE /\ call' = [call EXCEPT ![p] =
                                [op |-> "patchSession", pc |-> "update", req |-> req,
                                 id |-> id]]
                  /\ UNCHANGED resp
    /\ nops' = nops + 1
    /\ UNCHANGED <<sessions, leadsTable, leads, adminToken, gate, now, agents, seed>>

\* The UPDATE; a statement that throws is answered 500.
SessionPatchUpdate(p) ==
    /\ call[p].pc = "update" /\ call[p].op = "patchSession"
    /\ LET r == dbUpdateSession(leads, sessions, call[p].id,
                                SessionPatchUpdates(call[p].req.body))
       IN  IF r.ok
           THEN /\ sessions' = r.table
                /\ call' = [call EXCEPT ![p].pc = "fetch"]
                /\ UNCHANGED resp
           ELSE /\ Respond(p, [op |-> "patchSession", req |-> call[p].req,
                               status |-> 500, error |-> "Internal server error"])
                /\ call' = [call EXCEPT ![p] = Idle]
                /\ UNCHANGED sessions
    /\ UNCHANGED <<leadsTable, leads, adminToken, gate, now, agents, seed, nops>>

\* SELECT * FROM sessions WHERE id = ? and the 200 answer; toCamelCase of a
\* missing row throws.
SessionPatchFetch(p) ==
    /\ call[p].pc = "fetch" /\ call[p].op = "patchSession"
    /\ LET rows == SessionsById(sessions, call[p].id)
       IN  IF rows = {}
           THEN Respond(p, [op |-> "patchSession", req |-> call[p].req,
                            status |-> 500, error |-> "Internal server error"])
           ELSE \E row \in rows :
                  Respond(p, [op |-> "patchSession", req |-> call[p].req,
                              status |-> 200, body |-> sessionToCamelCase(row)])
    /\ call' = [call EXCEPT ![p] = Idle]
    /\ UNCHANGED <<sessions, leadsTable, leads, adminToken, gate, now, agents, seed, nops>>

(***************************************************************************)
(* The try/catch of the handlers.  Every handler of the four routers is    *)
(* one try block that awaits its storage calls in order, answers and       *)
(* returns from some places in between, and answers 500 from its catch.    *)
(* Here the data of a request is left out and a storage call either        *)
(* returns or throws.                                                      *)
(***************************************************************************)
Operations ==
    {"login", "me",
     "createAgent", "listAgents", "getAgent", "patchAgent", "deleteAgent",
     "createLead", "listLeads", "patchLead",
     "createSession", "listSessions", "getSession", "patchSession"}

\* The storage calls a handler awaits inside its try block, in order.
StorageCalls(op) ==
    CASE op = "login"         -> <<"SELECT agents">>
      [] op = "me"            -> <<"SELECT agents">>
      [] op = "createAgent"   -> <<"SELECT agents", "INSERT agents", "SELECT agents">>
      [] op = "listAgents"    -> <<"SELECT agents">>
      [] op = "getAgent"      -> <<"SELECT agents">>
      [] op = "patchAgent"    -> <<"SELECT agents", "UPDATE agents", "SELECT agents">>
      [] op = "deleteAgent"   -> <<"SELECT agents", "DELETE agents">>
      [] op = "createLead"    -> <<"INSERT leads", "SELECT leads">>
      [] op = "listLeads"     -> <<"SELECT leads">>
      [] op = "patchLead"     -> <<"UPDATE leads", "SELECT leads">>
      [] op = "createSession" -> <<"SELECT agents", "SELECT leads",
                                   "INSERT sessions", "SELECT sessions">>
      [] op = "listSessions"  -> <<"SELECT sessions">>
      [] op = "getSession"    -> <<"SELECT sessions">>
      [] op = "patchSession"  -> <<"SELECT sessions", "UPDATE sessions",
                                   "SELECT sessions">>

\* The places where a handler may answer and return before its end, as
\* pairs of the number of storage calls that have returned and the status
\* sent.
ReturnsAfter(op) ==
    CASE op = "login"         -> {<<0, 400>>, <<1, 401>>}
      [] op = "me"            -> {<<1, 404>>}
      [] op = "createAgent"   -> {<<1, 400>>}
      [] op = "listAgents"    -> {}
      [] op = "getAgent"      -> {<<1, 404>>}
      [] op = "patchAgent"    -> {<<1, 404>>, <<1, 400>>}
      [] op = "deleteAgent"   -> {<<1, 404>>}
      [] op = "createLead"    -> {<<0, 400>>}
      [] op = "listLeads"     -> {}
      [] op = "patchLead"     -> {<<0, 400>>, <<2, 404>>}
      [] op = "createSession" -> {<<0, 400>>, <<1, 404>>}
      [] op = "listSessions"  -> {}
      [] op = "getSession"    -> {<<1, 404>>}
      [] op = "patchSession"  -> {<<1, 404>>, <<1, 400>>}

\* The status a handler sends at the end of its try block.
FinalStatus(op) ==
    IF op \in {"createAgent", "createLead", "createSession"} THEN 201
    ELSE IF op = "deleteAgent" THEN 204
    ELSE 200

\* A slot no request has reached: at counts the storage calls that have
\* returned, sent the answers sent to the request.
NoRequest == [op |-> "none", pc |-> "idle", at |-> 0, sent |-> 0]

\* A handler that sends an answer and goes on with its try block.
HandlerAfterAnswerFallsThrough(c) == [c EXCEPT !.pc = "call", !.sent = @ + 1]

\* `return res.status(...).json(...)`: the answer is sent and the handler
\* is over.
HandlerAfterAnswer(c) == [c EXCEPT !.pc = "idle", !.sent = @ + 1]

\* Express hands a request to its handler.
Receive(p) ==
    /\ call[p].pc = "idle" /\ nops < MaxOps
    /\ \E op \in Operations :
         call' = [call EXCEPT ![p] = [op |-> op, pc |-> "check", at |-> 0, sent |-> 0]]
    /\ nops' = nops + 1
    /\ UNCHANGED <<sessions, leadsTable, leads, adminToken, gate, now, agents, seed, resp>>

\* The handler finds nothing to refuse and goes on to its next await.
CheckPasses(p) ==
    /\ call[p].pc = "check"
    /\ call' = [call EXCEPT ![p].pc = "call"]
    /\ UNCHANGED <<sessions, leadsTable, leads, adminToken, gate, now, agents, seed, resp, nops>>

\* The handler refuses the request: it answers and returns.
AnswerAndReturn(p) ==
    /\ call[p].pc = "check"
    /\ \E r \in ReturnsAfter(call[p].op) :
         /\ r[1] = call[p].at
         /\ resp' = [op |-> call[p].op, status |-> r[2]]
    /\ call' = [call EXCEPT ![p] = HandlerAfterAnswer(call[p])]
    /\ UNCHANGED <<sessions, leadsTable, leads, adminToken, gate, now, agents, seed, nops>>

\* The awaited storage call returns.
StorageReturns(p) ==
    /\ call[p].pc = "call"
    /\ call[p].at < Len(StorageCalls(call[p].op))
    /\ call' = [call EXCEPT ![p].at = @ + 1, ![p].pc = "check"]
    /\ UNCHANGED <<sessions, leadsTable, leads, adminToken, gate, now, agents, seed, resp, nops>>

\* The awaited storage call throws: the catch of the handler answers 500.
StorageThrows(p) ==
    /\ call[p].pc = "call"
    /\ call[p].at < Len(StorageCalls(call[p].op))
    /\ resp' = [op |-> call[p].op, status |-> 500, error |-> "Internal server error"]
    /\ call' = [call EXCEPT ![p].pc = "idle", ![p].sent = @ + 1]
    /\ UNCHANGED <<sessions, leadsTable, leads, adminToken, gate, now, agents, seed, nops>>

\* The last statement of the try block sends the answer.
AnswerFinal(p) ==
    /\ call[p].pc = "call"
    /\ call[p].at = Len(StorageCalls(call[p].op))
    /\ resp' = [op |-> call[p].op, status |-> FinalStatus(call[p].op)]
    /\ call' = [call EXCEPT ![p].pc = "idle", ![p].sent = @ + 1]
    /\ UNCHANGED <<sessions, leadsTable, leads, adminToken, gate, now, agents, seed, nops>>

(***************************************************************************)
(* The normalizers of the leads router applied to texts.                   *)
(***************************************************************************)

\* Characters of a full name, and the longest full name tried.
MaxNameLen == 7
NameChars == {"a", "b", " "}

\* All texts of at most n characters from chars.
TextsUpTo(chars, n) == UNION {[1..k -> chars] : k \in 0..n}

\* Pieces of a contacts text, and the most pieces in a text tried.
MaxContactPieces == 3
ContactPieces == {<<"@">>, <<" ">>, <<"9">>, <<"x", "/">>, TMe, TelegramMe}

\* The pieces of a sequence put together.
RECURSIVE Flatten(_)
Flatten(pieces) ==
    IF pieces = <<>> THEN <<>> ELSE Head(pieces) \o Flatten(Tail(pieces))

ContactTexts == {Flatten(ps) : ps \in TextsUpTo(ContactPieces, MaxContactPieces)}

\* The handler calls parseName(name).
ParseNameCall ==
    /\ resp.op = "name"
    /\ resp' = [op |-> "parseName", status |-> 0, req |-> resp.req,
                body |-> parseName(resp.req)]
    /\ UNCHANGED <<sessions, leadsTable, leads, adminToken, gate, now, agents, seed, call, nops>>

\* The handler calls parseContacts(contacts).
ParseContactsCall ==
    /\ resp.op = "contacts"
    /\ resp' = [op |-> "parseContacts", status |-> 0, req |-> resp.req,
                body |-> parseContacts(resp.req)]
    /\ UNCHANGED <<sessions, leadsTable, leads, adminToken, gate, now, agents, seed, call, nops>>

(***************************************************************************)
(* Specifications.                                                         *)
(***************************************************************************)
NoGate == [secret |-> Undefined, xAdminToken |-> Undefined,
           authorization |-> Undefined, passed |-> TRUE, status |-> 0, checked |-> FALSE]

\* The admin gate applied to requests.
InitGate ==
    /\ adminToken \in AdminTokens
    /\ gate = NoGate
    /\ now = 0
    /\ agents = {}
    /\ seed = "done"
    /\ call = [p \in Procs |-> Idle]
    /\ resp = NoResp
    /\ nops = 0
    /\ leadsTable = "existing"
    /\ leads = {}
    /\ sessions = {}

\* One request goes through the middleware.
GateCheck ==
    /\ \E x \in XAdminTokens, a \in Authorizations :
        LET r == requireAdminToken(adminToken, x, a)
        IN  gate' = [secret |-> adminToken, xAdminToken |-> x,
                     authorization |-> a, passed |-> r.passed,
                     status |-> r.status, checked |-> TRUE]
    /\ UNCHANGED <<sessions, leadsTable, leads, adminToken, now, agents, seed, call, resp, nops>>

NextGate == GateCheck

SpecGate == InitGate /\ [][NextGate]_vars

\* The agents and auth routers on one database, from the start of the
\* server on an empty database.
InitAgents ==
    /\ adminToken = Secret
    /\ gate = NoGate
    /\ now = 0
    /\ agents = {}
    /\ seed = "check"
    /\ call = [p \in Procs |-> Idle]
    /\ resp = NoResp
    /\ nops = 0
    /\ leadsTable = "existing"
    /\ leads = {}
    /\ sessions = {}

NextAgents ==
    \/ SeedStart
    \/ SeedCheck
    \/ SeedInsert
    \/ Tick
    \/ \E p \in Procs : AgentCreateBegin(p)
    \/ \E p \in Procs : AgentCreateInsert(p)
    \/ \E p \in Procs : AgentCreateFetch(p)
    \/ \E p \in Procs : AgentPatchBegin(p)
    \/ \E p \in Procs : AgentPatchUpdate(p)
    \/ \E p \in Procs : AgentPatchFetch(p)
    \/ \E p \in Procs : AgentDeleteBegin(p)
    \/ \E p \in Procs : AgentDeleteRun(p)
    \/ \E p \in Procs : Login(p)
    \/ \E p \in Procs : GetMe(p)

SpecAgents == InitAgents /\ [][NextAgents]_vars

\* The leads router, on a database whose table leads is either the one
\* initDatabase creates or one that existed before.
InitLeads ==
    /\ adminToken = Undefined
    /\ gate = NoGate
    /\ now = 0
    /\ agents = {DefaultAgent}
    /\ seed = "done"
    /\ call = [p \in Procs |-> Idle]
    /\ resp = NoResp
    /\ nops = 0
    /\ leadsTable \in {"created", "existing"}
    /\ leads = {}
    /\ sessions = {}

NextLeads ==
    \/ LeadCreate
    \/ LeadPatch

SpecLeads == InitLeads /\ [][NextLeads]_vars

\* The leads router creating and listing leads while time passes.
InitLeadList ==
    /\ adminToken = Undefined
    /\ gate = NoGate
    /\ now = 0
    /\ agents = {DefaultAgent}
    /\ seed = "done"
    /\ call = [p \in Procs |-> Idle]
    /\ resp = NoResp
    /\ nops = 0
    /\ leadsTable \in {"created", "existing"}
    /\ leads = {}
    /\ sessions = {}

NextLeadList ==
    \/ ListLeadCreate
    \/ ListTick
    \/ LeadList

SpecLeadList == InitLeadList /\ [][NextLeadList]_vars

\* A lead of the default agent, stored by an earlier POST /api/leads.
StoredLead ==
    [id |-> <<"lead-1">>, source |-> <<"site">>,
     first_name |-> <<"Ann">>, last_name |-> <<"Lee">>, middle_name |-> Null,
     phone |-> PhoneA, telegram |-> Null,
     id_agent |-> DefaultAgentId, status |-> <<"new">>, created_at |-> 0]

\* The agents and sessions routers after startup, on a database that holds
\* one lead: agents are created and deleted while sessions are created and
\* patched.
InitSessions ==
    /\ adminToken = Undefined
    /\ gate = NoGate
    /\ now = 0
    /\ agents = {DefaultAgent}
    /\ seed = "done"
    /\ call = [p \in Procs |-> Idle]
    /\ resp = NoResp
    /\ nops = 0
    /\ leadsTable = "existing"
    /\ leads = {StoredLead}
    /\ sessions = {}

NextSessions ==
    \/ \E p \in Procs : AgentCreateBegin(p)
    \/ \E p \in Procs : AgentCreateInsert(p)
    \/ \E p \in Procs : AgentCreateFetch(p)
    \/ \E p \in Procs : AgentDeleteBegin(p)
    \/ \E p \in Procs : AgentDeleteRun(p)
    \/ \E p \in Procs : SessionCreateBegin(p)
    \/ \E p \in Procs : SessionCreateInsert(p)
    \/ \E p \in Procs : SessionCreateFetch(p)
    \/ \E p \in Procs : SessionPatchBegin(p)
    \/ \E p \in Procs : SessionPatchUpdate(p)
    \/ \E p \in Procs : SessionPatchFetch(p)

SpecSessions == InitSessions /\ [][NextSessions]_vars

\* The handlers of all routers with storage calls that may throw.
InitFaults ==
    /\ adminToken = Undefined
    /\ gate = NoGate
    /\ now = 0
    /\ agents = {DefaultAgent}
    /\ seed = "done"
    /\ call = [p \in Procs |-> NoRequest]
    /\ resp = NoResp
    /\ nops = 0
    /\ leadsTable = "created"
    /\ leads = {}
    /\ sessions = {}

NextFaults ==
    \/ \E p \in Procs : Receive(p)
    \/ \E p \in Procs : CheckPasses(p)
    \/ \E p \in Procs : AnswerAndReturn(p)
    \/ \E p \in Procs : StorageReturns(p)
    \/ \E p \in Procs : StorageThrows(p)
    \/ \E p \in Procs : AnswerFinal(p)

SpecFaults == InitFaults /\ [][NextFaults]_vars

\* A name or a contacts text of a request body reaches its normalizer.
InitNormalizers ==
    /\ adminToken = Undefined
    /\ gate = NoGate
    /\ now = 0
    /\ agents = {DefaultAgent}
    /\ seed = "done"
    /\ call = [p \in Procs |-> Idle]
    /\ resp \in {[op |-> "name", status |-> 0, req |-> t] :
                    t \in TextsUpTo(NameChars, MaxNameLen)}
                \cup {[op |-> "contacts", status |-> 0, req |-> t] : t \in ContactTexts}
    /\ nops = 0
    /\ leadsTable = "created"
    /\ leads = {}
    /\ sessions = {}

NextNormalizers ==
    \/ ParseNameCall
    \/ ParseContactsCall

SpecNormalizers == InitNormalizers /\ [][NextNormalizers]_vars

(***************************************************************************)
(* Claims.                                                                 *)
(***************************************************************************)

\* The bearer token of an Authorization header: what follows the scheme
\* "Bearer ", when the header has that scheme.
BearerTokenOf(authorization) ==
    IF authorization # Undefined /\ StartsWith(authorization, Bearer)
    THEN SubSeq(authorization, Len(Bearer) + 1, Len(authorization))
    ELSE Undefined

\* C2 (as claimed): with a secret configured the gate passes a request if and
\* only if its X-Admin-Token header equals the secret or its bearer token
\* equals the secret; with no secret configured it passes every request.
C2_GatePassesIffEitherHeader ==
    gate.checked =>
        IF Truthy(gate.secret)
        THEN gate.passed <=> (gate.xAdminToken = gate.secret
                              \/ BearerTokenOf(gate.authorization) = gate.secret)
        ELSE gate.passed

\* C2 (amended): with a secret configured, a present non-empty X-Admin-Token
\* header alone decides (the request passes iff it equals the secret, whatever
\* the Authorization header holds); only when X-Admin-Token is absent or
\* empty is the Authorization header consulted, and the request passes iff
\* that header with its first "Bearer " removed equals the secret.  A request
\* that does not pass is answered 401.  Without a secret every request passes.
C2_GateXAdminTokenFirst ==
    gate.checked =>
        /\ ~Truthy(gate.secret) => gate.passed
        /\ (Truthy(gate.secret) /\ Truthy(gate.xAdminToken)) =>
               (gate.passed <=> gate.xAdminToken = gate.secret)
        /\ (Truthy(gate.secret) /\ ~Truthy(gate.xAdminToken)) =>
               (gate.passed <=>
                   /\ gate.authorization # Undefined
                   /\ \/ /\ ~Includes(gate.authorization, Bearer)
                         /\ gate.authorization = gate.secret
                      \/ \E i \in 1..Len(gate.authorization) :
                            /\ i = Min(Occurrences(gate.authorization, Bearer) \cup {i})
                            /\ i \in Occurrences(gate.authorization, Bearer)
                            /\ SubSeq(gate.authorization, 1, i - 1)
                                 \o SubSeq(gate.authorization, i + Len(Bearer),
                                           Len(gate.authorization)) = gate.secret)
        /\ gate.passed <=> gate.status # 401

\* C2 witness: with a secret configured, a request carrying a wrong
\* X-Admin-Token header together with the correct bearer token went through
\* the gate and was rejected.
C2_Witness ==
    /\ gate.checked
    /\ Truthy(gate.secret)
    /\ gate.xAdminToken = Wrong
    /\ gate.authorization = Bearer \o gate.secret
    /\ ~gate.passed

\* The fields named by an errors mapping.
ErrorKeys(errors) == {e[1] : e \in errors}

\* A request carries the admin secret in one of the two headers.
CarriesSecret(req) ==
    \/ req.xAdminToken = adminToken
    \/ BearerTokenOf(req.authorization) = adminToken

\* C1: with an admin secret configured, a POST /api/agents or DELETE
\* /api/agents/:id request that carries no token equal to the secret creates
\* or deletes no agent: only requests carrying the secret change the set of
\* agents through these two operations.
C1_AgentChangesNeedAdminToken ==
    [][\A p \in Procs :
         (/\ call[p].op \in {"createAgent", "deleteAgent"}
          /\ call'[p] # call[p]
          /\ Truthy(adminToken)
          /\ ~CarriesSecret(call[p].req)) => agents' = agents]_vars

\* C3: GET /api/auth/me answers with a profile only for a request whose bearer
\* token is valid, and the profile is that of the agent the token names; a
\* request whose token is missing, malformed, expired or wrongly signed is
\* answered 401 without the profile lookup being made.
C3_MeNeedsValidToken ==
    resp.op = "me" =>
        LET auth == requireAuth(resp.req.authorization, resp.req.time)
        IN  /\ ~auth.passed => (resp.status = 401 /\ ~resp.lookup)
            /\ resp.status = 200 => (auth.passed /\ resp.body.id = auth.agentId)

\* C4: every failed login attempt that supplied a login and a password gets
\* the answer (status and message) of the case where no agent matches the
\* login, whether the agent is missing, has no password or the password is
\* wrong.
C4_LoginFailuresUniform ==
    (/\ resp.op = "login"
     /\ Truthy(resp.req.login) /\ Truthy(resp.req.password)
     /\ resp.status # 200) =>
        /\ resp.status = LoginAnswer(resp.req, {}, 0).status
        /\ resp.error = LoginAnswer(resp.req, {}, 0).error

\* The step in which the create-agent request of slot p is answered because
\* its login is already taken: either the SELECT on login finds a row, or the
\* INSERT is refused.
CreateLosesOnLogin(p) ==
    \/ /\ AgentCreateInsert(p)
       /\ call'[p] = Idle
    \/ /\ AgentCreateBegin(p)
       /\ call'[p] = Idle
       /\ Truthy(resp'.req.body.login)
       /\ AgentsByLogin(agents, Trim(resp'.req.body.login)) # {}

\* C5: a create-agent request whose login is already taken by the time it
\* checks or inserts (also when both requests passed the check before either
\* inserted) is answered with a validation error on the login field, and
\* exactly one agent with that login exists afterward.
C5_LoginConflictIsLoginError ==
    [][\A p \in Procs :
         CreateLosesOnLogin(p) =>
            /\ resp'.status = 400
            /\ "login" \in ErrorKeys(resp'.errors)
            /\ Cardinality(AgentsByLogin(agents', Trim(resp'.req.body.login))) = 1]_vars

\* C6: no two agents have the same non-null login.
C6_LoginUnique ==
    \A a \in agents, b \in agents :
        (a # b /\ a.login # Null) => a.login # b.login

\* C6 witness: two agents with a login exist and the last answer is that of a
\* create request whose INSERT was refused because its login was taken.
C6_Witness ==
    /\ Cardinality({a \in agents : a.login # Null}) >= 2
    /\ resp.op = "createAgent" /\ resp.status = 500
    /\ AgentsByLogin(agents, TrimOrNull(resp.req.body.login)) # {}

\* The lead that the last answer, a 201 of lead creation, reports.
CreatedLead == CHOOSE l \in leads : l.id = resp.body.id

\* The last request created a lead.
LeadCreated ==
    /\ resp.op = "createLead"
    /\ resp.status = 201
    /\ \E l \in leads : l.id = resp.body.id

NonEmpty(v) == v \notin {Null, Undefined, <<>>}

\* C8: every stored lead has a non-empty phone or a non-empty telegram, and
\* a first name and a last name that are non-empty after trimming.
C8_LeadHasContactAndNames ==
    \A l \in leads :
        /\ NonEmpty(l.phone) \/ NonEmpty(l.telegram)
        /\ Trim(l.first_name) # <<>>
        /\ Trim(l.last_name) # <<>>

\* The rules of lead creation that body b violates, by the field they are
\* reported on: no source, no first name, no last name, no contact channel,
\* a phone of the wrong format.
LeadRulesViolated(b) ==
    LET n == ResolveName(b)
        c == ResolveContacts(b)
    IN  {k \in {"source", "firstName", "lastName", "contacts", "phone"} :
           \/ k = "source" /\ (~Truthy(b.source) \/ Trim(b.source) = <<>>)
           \/ k = "firstName" /\ Trim(n.firstName) = <<>>
           \/ k = "lastName" /\ Trim(n.lastName) = <<>>
           \/ k = "contacts" /\ ~Truthy(c.phone) /\ ~Truthy(c.telegram)
           \/ k = "phone" /\ Truthy(c.phone) /\ ~validatePhone(c.phone)}

\* Body b gives no phone, no telegram and no contacts.
NoContactGiven(b) ==
    b.phone = Undefined /\ b.telegram = Undefined /\ b.contacts = Undefined

\* C9: a step that answers a lead creation whose body violates a rule
\* answers 400 and leaves the table leads as it was; when the body gives no phone, no telegram and
\* no contacts the errors have the key contacts.
C9_RejectedLeadPersistsNothing ==
    [][(nops' # nops /\ resp'.op = "createLead"
           /\ LeadRulesViolated(resp'.req) # {})
         => /\ leads' = leads
            /\ resp'.status = 400
            /\ NoContactGiven(resp'.req) => "contacts" \in ErrorKeys(resp'.errors)]_vars

\* A body without any contact was refused on contacts while a lead stored
\* before stays the only one.
C9_Witness ==
    /\ resp.op = "createLead"
    /\ resp.status = 400
    /\ NoContactGiven(resp.req)
    /\ "contacts" \in ErrorKeys(resp.errors)
    /\ Cardinality(leads) = 1

\* C10: the errors of a refused lead creation have a key for every rule the
\* body violates, and a body that violates a rule is refused.
C10_AllViolationsReported ==
    (resp.op = "createLead" /\ LeadRulesViolated(resp.req) # {})
        => /\ resp.status = 400
           /\ LeadRulesViolated(resp.req) \subseteq ErrorKeys(resp.errors)

\* A refused lead creation reports three rules at once.
C10_Witness ==
    /\ resp.op = "createLead"
    /\ resp.status = 400
    /\ LeadRulesViolated(resp.req) = {"source", "lastName", "phone"}
    /\ LeadRulesViolated(resp.req) \subseteq ErrorKeys(resp.errors)

\* The last request is a lead creation in the simplified shape: a source, a
\* name of three tokens, contacts starting with @, and nothing else.
SimplifiedLeadAsked ==
    /\ resp.op = "createLead"
    /\ Truthy(resp.req.source) /\ Trim(resp.req.source) # <<>>
    /\ Truthy(resp.req.name) /\ Len(SplitWords(resp.req.name)) = 3
    /\ Truthy(resp.req.contacts) /\ StartsWith(Trim(resp.req.contacts), <<"@">>)
    /\ resp.req.phone = Undefined /\ resp.req.telegram = Undefined
    /\ resp.req.firstName = Undefined /\ resp.req.lastName = Undefined

\* C11: on the table leads that initDatabase creates, a lead creation in the
\* simplified shape is answered 201 and stores a lead whose first, middle
\* and last name are the three tokens of name, whose telegram is contacts,
\* whose phone is null and whose status is "new".
C11_SimplifiedLeadIsStored ==
    (SimplifiedLeadAsked /\ leadsTable = "created")
        => /\ LeadCreated
           /\ LET l == CreatedLead
                  w == SplitWords(resp.req.name)
              IN  /\ l.first_name = w[1]
                  /\ l.middle_name = w[2]
                  /\ l.last_name = w[3]
                  /\ l.telegram = Trim(resp.req.contacts)
                  /\ l.phone = Null
                  /\ l.status = <<"new">>

\* C12: a step that answers a lead creation with 201 adds exactly one row
\* to leads, with an id no row had and status "new", and the answer holds
\* the id, the status and the creation time of that row and nothing else.
C12_CreateAddsOneFreshLead ==
    [][(nops' # nops /\ resp'.op = "createLead" /\ resp'.status = 201)
         => \E l \in leads' :
              /\ leads' = leads \cup {l}
              /\ \A k \in leads : k.id # l.id
              /\ l.status = <<"new">>
              /\ DOMAIN resp'.body = {"id", "status", "createdAt"}
              /\ resp'.body = [id |-> l.id, status |-> l.status,
                               createdAt |-> l.created_at]]_vars

\* A lead was created in a table that held another lead.
C12_Witness ==
    /\ LeadCreated
    /\ Cardinality(leads) = 2
    /\ DOMAIN resp.body = {"id", "status", "createdAt"}

\* The rows a listing with query q is to return: those equal to the filters
\* given, later creation times first, without the first O of them when a
\* valid offset O is given, and at most L of the rest when a valid limit L
\* is given.
ListedAsSpecified(q, body) ==
    \E ord \in OrderedByCreatedAtDesc(
                 {l \in leads : /\ Truthy(q.status) => l.status = q.status
                                /\ Truthy(q.idAgent) => l.id_agent = q.idAgent}) :
        LET O == IF HasOffset(q) THEN parseInt(q.offset).abs ELSE 0
            rest == SubSeq(ord, O + 1, Len(ord))
            L == IF HasLimit(q) THEN parseInt(q.limit).abs ELSE Len(rest)
            kept == SubSeq(rest, 1, Min({Len(rest), L}))
        IN  body = [i \in 1..Len(kept) |-> leadToCamelCase(kept[i])]

\* C13: every listing of leads is answered 200 with the matching leads in
\* descending order of creation, a valid offset and a valid limit each
\* applied whether or not the other is given, invalid ones ignored.
C13_ListFiltersOrdersPages ==
    resp.op = "listLeads"
        => (resp.status = 200 /\ ListedAsSpecified(resp.req, resp.body))

\* The stored lead that has n - 1 leads created after it.
NthMostRecent(n) ==
    CHOOSE l \in leads : Cardinality({o \in leads : o.created_at > l.created_at}) = n - 1

\* The last request listed leads with limit=2 and offset=1 and no filter
\* while five leads of five creation times are stored.
ListedPageOfFive ==
    /\ resp.op = "listLeads"
    /\ resp.req = LeadQuery(Undefined, Undefined, <<"2">>, <<"1">>)
    /\ Cardinality(leads) = 5
    /\ \A l, k \in leads : l # k => l.created_at # k.created_at

\* C14 (as stated): with five leads of distinct creation times, limit=2 and
\* offset=1 list the 3rd and the 4th most recently created lead, in that
\* order.
C14_PageIsThirdAndFourth ==
    ListedPageOfFive
        => /\ resp.status = 200
           /\ resp.body = <<leadToCamelCase(NthMostRecent(3)),
                            leadToCamelCase(NthMostRecent(4))>>

\* C14 (amended): with five leads of distinct creation times, limit=2 and
\* offset=1 list the 2nd and the 3rd most recently created lead, in that
\* order: offset=1 skips only the most recent one.
C14_PageIsSecondAndThird ==
    ListedPageOfFive
        => /\ resp.status = 200
           /\ resp.body = <<leadToCamelCase(NthMostRecent(2)),
                            leadToCamelCase(NthMostRecent(3))>>

\* Such a listing was answered with two leads.
C14_Witness ==
    /\ ListedPageOfFive
    /\ resp.status = 200
    /\ Len(resp.body) = 2
    /\ resp.body[1].createdAt > resp.body[2].createdAt

\* A step answers a patch of a lead.
LeadPatchAnswered == nops' # nops /\ resp'.op = "patchLead"

\* C15 (as stated): a patch of a lead under an id that no lead has is
\* answered 404 and leaves the table leads as it was.
C15_PatchUnknownLeadIsNotFound ==
    [][(LeadPatchAnswered /\ \A l \in leads : l.id # resp'.req.id)
         => (resp'.status = 404 /\ leads' = leads)]_vars

\* C15 (amended): a patch of a lead under an id that no lead has leaves the
\* table leads as it was; it is answered 404 when the body passes the
\* checks of the body (a non-empty status, or an idAgent with a status that
\* is absent or a string), and 400 when it does not.
C15_PatchUnknownLeadChangesNothing ==
    [][(LeadPatchAnswered /\ \A l \in leads : l.id # resp'.req.id)
         => LET b == resp'.req.body
                bodyOk == /\ Truthy(b.status) \/ b.idAgent # Undefined
                          /\ b.status # Null
            IN  /\ leads' = leads
                /\ resp'.status = IF bodyOk THEN 404 ELSE 400]_vars

\* A patch under an unknown id was answered 404 while a lead is stored.
C15_Witness ==
    /\ resp.op = "patchLead"
    /\ resp.status = 404
    /\ leads # {}
    /\ \A l \in leads : l.id # resp.req.id

\* Row after is row before with at most status and id_agent changed.
OnlyStatusAndIdAgentDiffer(before, after) ==
    \A c \in DOMAIN before : c \notin {"status", "id_agent"} => after[c] = before[c]

\* C16: a patch of a lead whose body gives neither status nor idAgent is
\* answered 400 and changes no lead; a patch of an existing lead that gives
\* at least one of them changes no other lead and, of that lead, nothing
\* but status and id_agent, each only when it is given; when it is answered
\* 200 the given status is stored, and the given idAgent is stored trimmed,
\* as null when it is empty or null.
C16_PatchChangesOnlyGivenFields ==
    [][LeadPatchAnswered
         => LET b == resp'.req.body
                id == resp'.req.id
            IN  /\ (b.status = Undefined /\ b.idAgent = Undefined)
                     => (resp'.status = 400 /\ leads' = leads)
                /\ \A l \in leads :
                     \E k \in leads' :
                        /\ k.id = l.id
                        /\ l.id # id => k = l
                        /\ OnlyStatusAndIdAgentDiffer(l, k)
                        /\ b.status = Undefined => k.status = l.status
                        /\ b.idAgent = Undefined => k.id_agent = l.id_agent
                        /\ (l.id = id /\ resp'.status = 200)
                             => /\ b.status # Undefined => k.status = b.status
                                /\ b.idAgent \in {Null, <<>>} => k.id_agent = Null
                                /\ Truthy(b.idAgent) => k.id_agent = Trim(b.idAgent)
                /\ Cardinality(leads') = Cardinality(leads)]_vars

\* A lead was patched with a status and an empty idAgent.
C16_Witness ==
    /\ resp.op = "patchLead"
    /\ resp.status = 200
    /\ resp.req.body.status = <<"done">>
    /\ resp.req.body.idAgent = <<>>
    /\ \E l \in leads : l.id = resp.req.id /\ l.status = <<"done">> /\ l.id_agent = Null

\* C17: a step of an agent patch leaves the id, the login and the password
\* hash of every agent as they were, and adds or removes no agent.
C17_PatchKeepsLoginPasswordId ==
    [][\A p \in Procs :
         ((call[p].op = "patchAgent" \/ call'[p].op = "patchAgent")
             /\ call'[p] # call[p])
           => /\ \A a \in agents :
                   \E k \in agents' : /\ k.id = a.id
                                      /\ k.login = a.login
                                      /\ k.password_hash = a.password_hash
              /\ \A k \in agents' : \E a \in agents : a.id = k.id]_vars

\* A patch whose body carries a login and a password was answered 200 and
\* changed the first name of the agent, whose login is not the body's.
C17_Witness ==
    /\ resp.op = "patchAgent"
    /\ resp.status = 200
    /\ Truthy(resp.req.body.login) /\ Truthy(resp.req.body.password)
    /\ \E a \in agents : /\ a.id = resp.req.id
                         /\ a.first_name = Trim(resp.req.body.firstName)
                         /\ a.login # Trim(resp.req.body.login)
                         /\ a.password_hash # bcryptHash(resp.req.body.password)

\* C18: a step that answers a login with a token answers for an agent that
\* the login resolves to and whose password hash is set and matches the
\* password given; no token is issued for an agent without a password hash.
C18_NoTokenWithoutPassword ==
    [][(resp' # resp /\ resp'.op = "login" /\ resp'.status = 200)
         => \E a \in AgentsByCredential(agents, resp'.req.login) :
              /\ a.id = resp'.agent.id
              /\ resp'.token = jwtSign(a.id, JWT_SECRET, now)
              /\ a.password_hash # Null
              /\ bcryptCompare(resp'.req.password, a.password_hash)]_vars

\* A login that resolves only to agents without a password hash was
\* refused.
C18_Witness ==
    /\ resp.op = "login"
    /\ resp.status = 401
    /\ AgentsByCredential(agents, resp.req.login) # {}
    /\ \A a \in AgentsByCredential(agents, resp.req.login) : a.password_hash = Null

\* Every stored session belongs to a stored agent.
SessionsHaveAgents == \A x \in sessions : \E a \in agents : a.id = x.id_agent

\* The DELETE of an agent's handler ran in this step.
AgentDeleted(p) ==
    call[p].op = "deleteAgent" /\ call[p].pc = "delete" /\ call'[p] # call[p]

\* The INSERT of a session's handler ran in this step.
SessionInsertTried(p) ==
    call[p].op = "createSession" /\ call[p].pc = "insert" /\ call'[p] # call[p]

\* C19: in every reachable state every stored session's id_agent is the id
\* of a stored agent.  The delete of a stored agent removes that agent and
\* all of its sessions and nothing else; a session create whose agent was
\* deleted between the existence check and the INSERT stores no session;
\* the delete of an id no agent has is answered 404 and changes no agent
\* and no session.
C19_SessionsBelongToAgents ==
    /\ []SessionsHaveAgents
    /\ [][/\ \A p \in Procs :
               AgentDeleted(p)
                 => /\ agents' = {a \in agents : a.id # call[p].id}
                    /\ sessions' = {x \in sessions : x.id_agent # call[p].id}
                    /\ resp'.status = 204
          /\ \A p \in Procs :
               (SessionInsertTried(p) /\ AgentsById(agents, call[p].req.idAgent) = {})
                 => /\ sessions' = sessions
                    /\ resp'.op = "createSession" /\ resp'.status = 500
          /\ (nops' # nops /\ resp' # resp /\ resp'.op = "deleteAgent")
                 => /\ AgentsById(agents, resp'.req.id) = {}
                    /\ resp'.status = 404
                    /\ agents' = agents /\ sessions' = sessions]_vars

\* A session create passed the existence check of its agent and was then
\* answered 500 because the agent had been deleted meanwhile; no session of
\* that agent is stored.
C19_Witness ==
    /\ resp.op = "createSession"
    /\ resp.status = 500
    /\ ~Truthy(resp.req.idLead)
    /\ AgentsById(agents, resp.req.idAgent) = {}
    /\ \A x \in sessions : x.id_agent # resp.req.idAgent

\* The outcomes of generateAgentContext that are failures of the generator.
AiFailures == {"noKey", "failed"}

\* The lead a session create names, if any, is stored.
SessionLeadKnown(req) ==
    Truthy(req.idLead) => \E l \in leads : l.id = req.idLead

\* C20: a session create for an agent that is stored throughout, naming no
\* lead or a stored one, does not fail when the generator is not configured
\* or fails: its INSERT adds exactly one session, of that agent, with status
\* "active" and a non-empty context, and its answer is 201 with that
\* session and its context.
C20_GeneratorFailureIsNotFatal ==
    [][\A p \in Procs :
         (/\ call[p].op = "createSession"
          /\ call'[p] # call[p]
          /\ call[p].ai \in AiFailures
          /\ AgentsById(agents, call[p].req.idAgent) # {}
          /\ SessionLeadKnown(call[p].req))
           => /\ call[p].pc = "insert"
                   => /\ call'[p].pc = "fetch"
                      /\ \E x \in sessions' :
                            /\ x \notin sessions
                            /\ sessions' = sessions \cup {x}
                            /\ x.id = call[p].id
                            /\ x.id_agent = call[p].req.idAgent
                            /\ x.status = <<"active">>
                            /\ Truthy(x.context_ai)
              /\ call[p].pc = "fetch"
                   => /\ resp'.op = "createSession"
                      /\ resp'.status = 201
                      /\ resp'.body.id = call[p].id
                      /\ resp'.body.idAgent = call[p].req.idAgent
                      /\ Truthy(resp'.body.contextAi)
                      /\ \E x \in sessions : sessionToCamelCase(x) = resp'.body]_vars

\* A session create whose generator was not configured was answered 201
\* with a stored, active session that carries the handler's own context.
C20_Witness ==
    /\ resp.op = "createSession"
    /\ resp.status = 201
    /\ resp.ai = "noKey"
    /\ resp.body.aiResponse = Undefined
    /\ \E x \in sessions : /\ x.id = resp.body.id
                           /\ x.status = <<"active">>
                           /\ x.context_ai = resp.body.contextAi
                           /\ Truthy(x.context_ai)

\* A step answers a patch of a session before its UPDATE.
SessionPatchAnsweredAtCheck ==
    nops' # nops /\ call' = call /\ resp'.op = "patchSession"

\* The UPDATE of a session patch ran in this step.
SessionUpdateTried(p) ==
    call[p].op = "patchSession" /\ call[p].pc = "update" /\ call'[p] # call[p]

\* The database takes the fields of the body: the status is not null and
\* the lead named, if any, is stored.
SessionPatchStorable(b) ==
    /\ b.status # Null
    /\ Truthy(b.idLead) => \E l \in leads : l.id = b.idLead

\* C21: a patch of a session under an id that no session has is answered
\* 404, whatever its body, and changes nothing; a patch of a stored session
\* with neither status nor idLead is answered 400 and changes nothing; the
\* UPDATE of any other patch changes, in the session of that id only, the
\* status when one is given and the lead when one is given, an empty or null
\* idLead being stored as null.
C21_SessionPatch ==
    [][/\ SessionPatchAnsweredAtCheck
            => LET b == resp'.req.body
               IN  /\ sessions' = sessions
                   /\ SessionsById(sessions, resp'.req.id) = {} => resp'.status = 404
                   /\ SessionsById(sessions, resp'.req.id) # {}
                        => /\ resp'.status = 400
                           /\ b.status = Undefined /\ b.idLead = Undefined
       /\ \A p \in Procs :
            (nops' # nops /\ call'[p] # call[p] /\ call'[p].op = "patchSession")
              => /\ SessionsById(sessions, call'[p].id) # {}
                 /\ call'[p].req.body.status # Undefined
                      \/ call'[p].req.body.idLead # Undefined
       /\ \A p \in Procs :
            SessionUpdateTried(p)
              => LET b == call[p].req.body
                 IN  /\ \A x \in sessions :
                          \E y \in sessions' :
                             /\ y.id = x.id
                             /\ \A c \in DOMAIN x :
                                  c \notin {"status", "id_lead"} => y[c] = x[c]
                             /\ (x.id # call[p].id \/ b.status = Undefined)
                                  => y.status = x.status
                             /\ (x.id # call[p].id \/ b.idLead = Undefined)
                                  => y.id_lead = x.id_lead
                     /\ Cardinality(sessions') = Cardinality(sessions)
                     /\ SessionPatchStorable(b)
                          => /\ call'[p].pc = "fetch"
                             /\ \A y \in sessions' :
                                  y.id = call[p].id
                                    => /\ b.status # Undefined => y.status = b.status
                                       /\ b.idLead \in {Null, <<>>} => y.id_lead = Null
                                       /\ Truthy(b.idLead) => y.id_lead = b.idLead]_vars

\* A patch with a status and an empty idLead was answered 200; the session
\* is stored with that status and without a lead.
C21_Witness ==
    /\ resp.op = "patchSession"
    /\ resp.status = 200
    /\ resp.req.body.idLead = <<>>
    /\ resp.req.body.status = <<"closed">>
    /\ resp.body.idLead = Undefined
    /\ \E x \in sessions : /\ x.id = resp.req.id
                           /\ x.id_lead = Null
                           /\ x.status = <<"closed">>

\* The handler in slot p can take a step.
HandlerCanStep(p) ==
    ENABLED (CheckPasses(p) \/ AnswerAndReturn(p) \/ StorageReturns(p)
               \/ StorageThrows(p) \/ AnswerFinal(p))

\* A request whose handler is over has one answer, a request whose handler
\* runs has none yet and its handler can go on.
AnsweredOnce ==
    \A p \in Procs :
        /\ (call[p].pc = "idle" /\ call[p].op # "none") => call[p].sent = 1
        /\ call[p].pc # "idle" => (call[p].sent = 0 /\ HandlerCanStep(p))

\* The handler in slot p ends in this step while a storage call of its is
\* awaited.
EndsInStorageCall(p) ==
    /\ call[p].pc = "call"
    /\ call[p].at < Len(StorageCalls(call[p].op))
    /\ call'[p].pc = "idle"

\* C22: in every handler, a storage call that throws, whichever call of the
\* handler it is, ends the handler with the one answer 500 'Internal server
\* error'; every request whose handler is over was answered exactly once,
\* and a handler that is not over has sent no answer and can take a step.
C22_StorageFailureAnsweredOnce ==
    /\ []AnsweredOnce
    /\ [][\A p \in Procs :
            EndsInStorageCall(p)
              => /\ resp'.op = call[p].op
                 /\ resp'.status = 500
                 /\ call'[p].sent = 1]_vars

\* The third storage call of a handler threw after two had returned; the
\* request was answered 500, once.
C22_Witness ==
    /\ resp.status = 500
    /\ \E p \in Procs : /\ call[p].pc = "idle"
                        /\ call[p].op = resp.op
                        /\ call[p].at = 2
                        /\ call[p].sent = 1

\* The re-fetch of a patch of an agent or of a session ran in this step.
PatchRefetched(p) ==
    /\ call[p].op \in {"patchAgent", "patchSession"}
    /\ call[p].pc = "fetch"
    /\ call'[p] # call[p]

\* C23: a patch of an agent or of a session whose UPDATE has run is answered
\* with the updated projection (200) or with not found (404), also when the
\* agent was deleted before the re-fetch.
C23_PatchRacingDeleteNeverFails ==
    [][\A p \in Procs :
         PatchRefetched(p)
           => /\ resp'.op = call[p].op
              /\ resp'.status \in {200, 404}]_vars

\* C24: every stored agent has a non-empty first name, a non-empty last
\* name and a phone that passes validatePhone, also after patches that
\* supply an empty or whitespace-only first name.
C24_AgentsKeepNamesAndPhone ==
    \A a \in agents :
        /\ Truthy(a.first_name) /\ Trim(a.first_name) # <<>>
        /\ Truthy(a.last_name) /\ Trim(a.last_name) # <<>>
        /\ validatePhone(a.phone)

\* C25: the id_agent of every stored lead is null or the id of a stored
\* agent.
C25_LeadAgentsExist ==
    \A l \in leads : l.id_agent = Null \/ \E a \in agents : a.id = l.id_agent

\* C26: the session that an INSERT stores has a non-null ai_response only
\* when the generator returned a text, and then that text; when the
\* generator was not configured or failed, the session is stored with a
\* non-empty context and a null ai_response.
C26_AiResponseOnlyFromGenerator ==
    [][\A p \in Procs :
         SessionInsertTried(p)
           => \A x \in sessions' \ sessions :
                 /\ x.ai_response # Null
                      => (call[p].ai = "ok" /\ x.ai_response = x.context_ai)
                 /\ call[p].ai \in AiFailures
                      => (x.ai_response = Null /\ Truthy(x.context_ai))]_vars

\* The body gives a telegram and a phone and no contacts.
TelegramAndPhoneGiven(b) ==
    ~Truthy(b.contacts) /\ Truthy(b.telegram) /\ Truthy(b.phone)

\* C27: every stored lead has a null phone or a null telegram, and a phone
\* that is stored passes validatePhone.  A creation whose body gives a
\* telegram and a phone without contacts stores the telegram and a null
\* phone, and is never refused for the format of that phone.
C27_OneContactPerLead ==
    /\ \A l \in leads :
          /\ l.phone = Null \/ l.telegram = Null
          /\ l.phone # Null => validatePhone(l.phone)
    /\ (LeadCreated /\ TelegramAndPhoneGiven(resp.req))
          => /\ CreatedLead.telegram = TrimOrNull(resp.req.telegram)
             /\ CreatedLead.phone = Null
    /\ (resp.op = "createLead" /\ resp.status = 400 /\ TelegramAndPhoneGiven(resp.req))
          => "phone" \notin ErrorKeys(resp.errors)

\* A lead was created from a body with a telegram and a phone that does
\* not pass validatePhone: the telegram is stored, the phone is not.
C27_Witness ==
    /\ LeadCreated
    /\ TelegramAndPhoneGiven(resp.req)
    /\ ~validatePhone(resp.req.phone)
    /\ CreatedLead.telegram = resp.req.telegram
    /\ CreatedLead.phone = Null

\* The positions of t where a token starts, and where one ends: a token is
\* a longest run of characters that are not whitespace.
TokenStarts(t) ==
    {i \in 1..Len(t) : ~IsSpace(t[i]) /\ (i = 1 \/ IsSpace(t[i - 1]))}

TokenEnds(t) ==
    {i \in 1..Len(t) : ~IsSpace(t[i]) /\ (i = Len(t) \/ IsSpace(t[i + 1]))}

\* The k-th smallest member of a set of numbers.
Nth(S, k) == CHOOSE x \in S : Cardinality({y \in S : y < x}) = k - 1

\* The k-th token of t.
Token(t, k) == SubSeq(t, Nth(TokenStarts(t), k), Nth(TokenEnds(t), k))

\* m is the tokens from the second to the one before the last of t, with
\* one space between neighbours.
IsInteriorJoined(m, t) ==
    LET n == Cardinality(TokenStarts(t))
    IN  /\ Cardinality(TokenStarts(m)) = n - 2
        /\ \A k \in 1..(n - 2) : Token(m, k) = Token(t, k + 1)
        /\ \A i \in 1..Len(m) : IsSpace(m[i]) => (m[i] = " " /\ i \in 2..(Len(m) - 1))
        /\ \A i \in 1..(Len(m) - 1) : ~(IsSpace(m[i]) /\ IsSpace(m[i + 1]))

\* C28: parseName of a text without tokens gives an empty firstName and
\* lastName and no middleName; of one token, that token as firstName and an
\* empty lastName; of two tokens, the first as firstName and the second as
\* lastName, without middleName; of three or more, the first token as
\* firstName, the last as lastName and the tokens in between, joined by
\* single spaces, as middleName.
C28_ParseNameByTokens ==
    resp.op = "parseName" =>
        LET t == resp.req
            n == Cardinality(TokenStarts(t))
            r == resp.body
        IN  /\ n = 0 => (r.firstName = <<>> /\ r.lastName = <<>>
                           /\ r.middleName = Undefined)
            /\ n = 1 => (r.firstName = Token(t, 1) /\ r.lastName = <<>>
                           /\ r.middleName = Undefined)
            /\ n = 2 => (r.firstName = Token(t, 1) /\ r.lastName = Token(t, 2)
                           /\ r.middleName = Undefined)
            /\ n >= 3 => /\ r.firstName = Token(t, 1)
                         /\ r.lastName = Token(t, n)
                         /\ r.middleName # Undefined
                         /\ IsInteriorJoined(r.middleName, t)

\* parseName was given four tokens: the middle name is the second and the
\* third token with one space between.
C28_Witness ==
    /\ resp.op = "parseName"
    /\ resp.req = <<"a", " ", "b", " ", "a", " ", "b">>
    /\ resp.body = [firstName |-> <<"a">>, lastName |-> <<"b">>,
                    middleName |-> <<"b", " ", "a">>]

\* t is s without the whitespace at its ends.
IsTrimOf(t, s) ==
    \E i \in 1..(Len(s) + 1), j \in 0..Len(s) :
        /\ t = SubSeq(s, i, j)
        /\ \A k \in 1..(i - 1) : IsSpace(s[k])
        /\ \A k \in (j + 1)..Len(s) : IsSpace(s[k])
        /\ t # <<>> => (~IsSpace(t[1]) /\ ~IsSpace(t[Len(t)]))

\* pat occurs in t.
Contains(t, pat) ==
    \E i \in 1..(Len(t) - Len(pat) + 1) : SubSeq(t, i, i + Len(pat) - 1) = pat

\* C29: parseContacts gives exactly one of phone and telegram; what it
\* gives is the text without the whitespace at its ends, as telegram when
\* that starts with '@' or contains 't.me/' or 'telegram.me/', and as phone
\* otherwise.
C29_ParseContactsClassifies ==
    resp.op = "parseContacts" =>
        LET r == resp.body
            given == IF r.telegram # Undefined THEN r.telegram ELSE r.phone
            asTelegram == \/ (given # <<>> /\ given[1] = "@")
                          \/ Contains(given, <<"t", ".", "m", "e", "/">>)
                          \/ Contains(given, <<"t", "e", "l", "e", "g", "r", "a", "m",
                                               ".", "m", "e", "/">>)
        IN  /\ (r.phone = Undefined) # (r.telegram = Undefined)
            /\ IsTrimOf(given, resp.req)
            /\ asTelegram <=> r.telegram # Undefined

\* parseContacts was given a telegram link with whitespace around it and
\* gave the link as telegram.
C29_Witness ==
    /\ resp.op = "parseContacts"
    /\ resp.req = <<" ", "t", ".", "m", "e", "/", " ">>
    /\ resp.body.telegram = <<"t", ".", "m", "e", "/">>
    /\ resp.body.phone = Undefined

====
